---- MODULE Spec2Model ----
(***************************************************************************)
(* Model of the security-bounded file / command access layer of the       *)
(* log-analysis agent: utilities/paths.py (PathGuard),                     *)
(* utilities/tools/code_ops.py (CommandAllowlist),                         *)
(* utilities/tools/file_ops.py (file tools, streaming JSONL reader) and    *)
(* utilities/handles_registry.py (HandleRegistry).                         *)
(*                                                                         *)
(* A Python str is a sequence of one-character strings; a resolved path    *)
(* (pathlib.Path.resolve()) is a sequence of components, each a str.       *)
(***************************************************************************)
EXTENDS Integers, Sequences, FiniteSets, TLC

VARIABLES
    symlinks,      \* file system: symbolic links, link location -> target string
    cwd,           \* the process's working directory (resolved)
    files,         \* file system: regular files, resolved path -> lines
    dirs,          \* file system: directories (resolved paths)
    pa,            \* the last is_path_allowed call: arguments and outcome
    cmd,           \* the run_safe_command call: arguments, then outcome
    id_to_handle,  \* HandlesRegistry.id_to_handle
    streams,       \* the open text streams: stream -> file and position
    returned,      \* per handle id, the lines its reads have returned so far
    issued,        \* number of handle ids generated so far
    io             \* the file tool call whose result the caller holds

fsVars == <<symlinks, cwd, files, dirs>>
regVars == <<id_to_handle, streams, returned, issued>>
vars == <<symlinks, cwd, files, dirs, pa, cmd, id_to_handle, streams,
          returned, issued, io>>

-----------------------------------------------------------------------------
(* Bounds *)

MaxLinkDepth == 3   \* symbolic links followed while resolving one path
MaxDotDot == 3      \* '..' segments appended to a path of the pool
MaxArgs == 2        \* length of a command's argument list
MaxOpens == 2       \* handle ids generated in one run
MaxRead == 3        \* number_of_lines asked of read_jsonl
MaxFileOpens == 1   \* handle ids generated in a run of the stateless file tools
MaxExtLen == 6      \* characters of an exhaustively drawn CEF extension
MaxKvLen == 5       \* characters of an exhaustively drawn key-value portion
MaxMetadata == 2    \* entries of a log type's parsing_metadata
MaxParseLevel == 2  \* parse_level of a parsing_metadata entry
MaxScanLen == 4     \* characters of a string scanned one iteration at a time

-----------------------------------------------------------------------------
(* str helpers *)

NUL == "NUL"
DotDot == <<".", ".">>

StartsWith(s, pre) == Len(pre) <= Len(s) /\ SubSeq(s, 1, Len(pre)) = pre

EndsWith(s, suf) ==
    Len(suf) <= Len(s) /\ SubSeq(s, Len(s) - Len(suf) + 1, Len(s)) = suf

Contains(s, sub) ==
    \E i \in 0..(Len(s) - Len(sub)) : SubSeq(s, i + 1, i + Len(sub)) = sub

HasChar(s, c) == \E i \in 1..Len(s) : s[i] = c

RECURSIVE SplitOn(_, _)
SplitOn(s, c) ==
    IF ~HasChar(s, c) THEN <<s>>
    ELSE LET k == CHOOSE i \in 1..Len(s) :
                      s[i] = c /\ \A j \in 1..(i - 1) : s[j] # c
         IN  <<SubSeq(s, 1, k - 1)>> \o SplitOn(SubSeq(s, k + 1, Len(s)), c)

RECURSIVE Flatten(_)
Flatten(ss) == IF ss = <<>> THEN <<>> ELSE Head(ss) \o Flatten(Tail(ss))

-----------------------------------------------------------------------------
(* pathlib: Path(s) and Path(s).resolve() *)

\* PurePosixPath parsing: empty and '.' segments are dropped.
Parts(s) == SelectSeq(SplitOn(s, "/"), LAMBDA x : x # <<>> /\ x # <<".">>)

IsAbs(s) == Len(s) > 0 /\ s[1] = "/"

\* os.lstat() on a string with an embedded NUL raises ValueError.
HasNul(s) == HasChar(s, NUL)

\* posixpath._joinrealpath, non-strict: '..' drops the last resolved
\* component, a symbolic link is replaced by its resolved target, a missing
\* component is appended as it is.
RECURSIVE JoinReal(_, _, _)
JoinReal(cur, rest, fuel) ==
    IF rest = <<>> THEN cur
    ELSE LET name == Head(rest)
             tl == Tail(rest)
         IN  IF name = DotDot
             THEN JoinReal(IF cur = <<>> THEN cur
                           ELSE SubSeq(cur, 1, Len(cur) - 1), tl, fuel)
             ELSE LET newpath == Append(cur, name)
                  IN  IF newpath \in DOMAIN symlinks /\ fuel > 0
                      THEN LET target == symlinks[newpath]
                               base == IF IsAbs(target) THEN <<>> ELSE cur
                           IN  JoinReal(JoinReal(base, Parts(target), fuel - 1),
                                        tl, fuel)
                      ELSE JoinReal(newpath, tl, fuel)

Resolve(s) == JoinReal(IF IsAbs(s) THEN <<>> ELSE cwd, Parts(s), MaxLinkDepth)

\* realpath leaves a link that leads back to itself unresolved; following
\* JoinReal, the walk comes to a link with every allowed hop used.
RECURSIVE HitsLoop(_, _, _)
HitsLoop(cur, rest, fuel) ==
    IF rest = <<>> THEN FALSE
    ELSE LET name == Head(rest)
             tl == Tail(rest)
         IN  IF name = DotDot
             THEN HitsLoop(IF cur = <<>> THEN cur
                           ELSE SubSeq(cur, 1, Len(cur) - 1), tl, fuel)
             ELSE LET newpath == Append(cur, name)
                  IN  IF newpath \in DOMAIN symlinks
                      THEN IF fuel = 0 THEN TRUE
                           ELSE LET target == symlinks[newpath]
                                    base == IF IsAbs(target) THEN <<>> ELSE cur
                                IN  \/ HitsLoop(base, Parts(target), fuel - 1)
                                    \/ HitsLoop(JoinReal(base, Parts(target),
                                                         fuel - 1), tl, fuel)
                      ELSE HitsLoop(newpath, tl, fuel)

\* Path.resolve() stats the result of realpath and turns ELOOP into
\* RuntimeError('Symlink loop from ...').
SymlinkLoop(s) ==
    HitsLoop(IF IsAbs(s) THEN <<>> ELSE cwd, Parts(s), MaxLinkDepth)

\* str(resolved path)
PathStr(comps) ==
    IF comps = <<>> THEN <<"/">>
    ELSE Flatten([i \in 1..Len(comps) |-> <<"/">> \o comps[i]])

-----------------------------------------------------------------------------
(* utilities/paths.py *)

\* The mutant compares the two paths as strings instead of by components.
RelativeToByString(p, base) == StartsWith(PathStr(p), PathStr(base))

\* PurePath.relative_to(base) succeeds iff base's components lead p's.
RelativeTo(p, base) == StartsWith(p, base)

\* What Path(allowed_dir).resolve() raises: ValueError for an embedded NUL,
\* RuntimeError for a symbolic-link loop, nothing otherwise.
RootError(allowed_dir) ==
    IF HasNul(allowed_dir) THEN "ValueError"
    ELSE IF SymlinkLoop(allowed_dir) THEN "RuntimeError" ELSE "none"

\* The loop over allowed_dirs: `except ValueError: continue` takes both the
\* ValueError of relative_to and that of resolve; `except Exception` takes
\* the rest.
RECURSIVE AllowedLoop(_, _)
AllowedLoop(resolved_path, allowed_dirs) ==
    IF allowed_dirs = <<>> THEN FALSE
    ELSE IF RootError(Head(allowed_dirs)) # "none"
         THEN AllowedLoop(resolved_path, Tail(allowed_dirs))
         ELSE IF RelativeTo(resolved_path, Resolve(Head(allowed_dirs)))
              THEN TRUE
              ELSE AllowedLoop(resolved_path, Tail(allowed_dirs))

\* The roots logger.warning is called for, in the order of the loop.
RECURSIVE LoopWarnings(_, _)
LoopWarnings(resolved_path, allowed_dirs) ==
    IF allowed_dirs = <<>> THEN <<>>
    ELSE LET allowed_dir == Head(allowed_dirs)
             e == RootError(allowed_dir)
         IN  IF e = "none" /\ RelativeTo(resolved_path, Resolve(allowed_dir))
             THEN <<>>
             ELSE (IF e = "RuntimeError" THEN <<allowed_dir>> ELSE <<>>)
                      \o LoopWarnings(resolved_path, Tail(allowed_dirs))

\* "True" / "False", or "Invalid path" when the call raises ToolException.
is_path_allowed(path, allowed_dirs) ==
    IF HasNul(path) \/ SymlinkLoop(path) THEN "Invalid path"
    ELSE IF AllowedLoop(Resolve(path), allowed_dirs) THEN "True" ELSE "False"

\* The warnings one call of is_path_allowed logs.
is_path_allowed_warnings(path, allowed_dirs) ==
    IF HasNul(path) \/ SymlinkLoop(path) THEN <<>>
    ELSE LoopWarnings(Resolve(path), allowed_dirs)

-----------------------------------------------------------------------------
(* The file system the model runs in, and the inputs drawn from it.        *)
(* /p is the project root (config.PROJECT_ROOT), /p/c and /p/t/c the       *)
(* custom-parser directories, /pq a sibling whose name starts with the     *)
(* root's name, /o a directory outside the project.                        *)

Dp == <<"p">>
Dpq == <<"p", "q">>
Do == <<"o">>
Dc == <<"c">>
Dt == <<"t">>
Dx == <<"x">>
Ll == <<"l">>
Lk == <<"k">>
Lm == <<"m">>

PROJECT_ROOT == <<Dp>>
CUSTOM_PARSERS_DIR == <<Dp, Dc>>
CUSTOM_PARSERS_TESTS_DIR == <<Dp, Dt, Dc>>
OUTSIDE_DIR == <<Do>>
LinkInside == <<Dp, Ll>>     \* location of a link inside the project root
LinkOutside == <<Do, Lm>>    \* location of a link outside the project root
LinkInWriteDir == <<Dp, Dc, Lk>>  \* location of a link in custom_parsers

ALLOWED_READ_DIRS == <<PathStr(PROJECT_ROOT)>>
ALLOWED_WRITE_DIRS ==
    <<PathStr(CUSTOM_PARSERS_DIR), PathStr(CUSTOM_PARSERS_TESTS_DIR)>>

NoLinks == [x \in {} |-> <<>>]

\* The files present at start: a sample of SampleLines lines under the
\* project root, a shorter one outside it, and a text file.
SampleLines == 5
ShortLines == 2

FileA == <<Dp, <<"a", ".", "j", "s", "o", "n", "l">>>>
FileB == <<Do, <<"b", ".", "j", "s", "o", "n", "l">>>>
FileR == <<Dp, <<"r", ".", "t", "x", "t">>>>

LinesOf(tag, n) == [i \in 1..n |-> <<tag, i>>]

InitialFiles ==
    [f \in {FileA, FileB, FileR} |->
        IF f = FileA THEN LinesOf("a", SampleLines)
        ELSE IF f = FileB THEN LinesOf("b", ShortLines)
             ELSE LinesOf("r", 1)]

InitialDirs ==
    { <<>>, PROJECT_ROOT, CUSTOM_PARSERS_DIR, <<Dp, Dt>>,
      CUSTOM_PARSERS_TESTS_DIR, OUTSIDE_DIR, <<Dpq>> }

NoEntries == [x \in {} |-> <<>>]
Idle == [op |-> "idle"]

InitRest ==
    /\ files = InitialFiles
    /\ dirs = InitialDirs
    /\ id_to_handle = NoEntries
    /\ streams = NoEntries
    /\ returned = NoEntries
    /\ issued = 0
    /\ io = Idle

LinkConfigs ==
    { NoLinks,
      [x \in {LinkInside} |-> PathStr(OUTSIDE_DIR)],
      [x \in {LinkInside} |-> <<".", ".", "/", "o">>],
      [x \in {LinkInside} |-> PathStr(CUSTOM_PARSERS_DIR)],
      [x \in {LinkOutside} |-> PathStr(CUSTOM_PARSERS_DIR)],
      [x \in {LinkInside, LinkOutside} |->
          IF x = LinkInside THEN PathStr(LinkOutside)
          ELSE PathStr(OUTSIDE_DIR)],
      [x \in {LinkOutside} |-> PathStr(LinkOutside)] }

DotDots(k) == Flatten([i \in 1..k |-> <<"/", ".", ".">>])

FileTxt == <<"/", "f", ".", "t", "x", "t">>
OutsideSecret == <<"/", "o", "/", "s">>

TraversalPaths ==
    { PathStr(b) \o DotDots(k) \o tail :
        b \in {PROJECT_ROOT, <<Dp, Dc, Dx>>, LinkInside},
        k \in 0..MaxDotDot,
        tail \in {<<>>, FileTxt, OutsideSecret} }

SiblingFile == PathStr(<<Dpq>>) \o FileTxt
NulPath == <<NUL, "f">>
NulDir == <<"/", "n", "/", NUL>>

PathPool ==
    TraversalPaths \cup
    { SiblingFile, NulPath, <<>>, <<"/">>, <<"f", ".", "t", "x", "t">>,
      <<".", ".", "/", "o">>, <<".", "/", "c", "/", "x">>,
      PathStr(OUTSIDE_DIR), PathStr(LinkOutside) \o FileTxt,
      PathStr(PROJECT_ROOT) \o <<"/">> }

RootLists ==
    { <<>>, ALLOWED_READ_DIRS, ALLOWED_WRITE_DIRS,
      <<PathStr(PROJECT_ROOT) \o <<"/">> >>,
      <<PathStr(OUTSIDE_DIR), PathStr(PROJECT_ROOT)>>,
      <<NulDir, PathStr(PROJECT_ROOT)>>,
      <<PathStr(LinkOutside), PathStr(PROJECT_ROOT)>>,
      <<PathStr(LinkInside)>> }

-----------------------------------------------------------------------------
(* State machine *)

NoCall == [path |-> <<>>, roots |-> <<>>, result |-> "none", warned |-> <<>>]

NoCommand == [status |-> "none"]

InitPath ==
    /\ symlinks \in LinkConfigs
    /\ cwd \in {PROJECT_ROOT, OUTSIDE_DIR}
    /\ pa = NoCall
    /\ cmd = NoCommand
    /\ InitRest

\* One call of is_path_allowed(path, allowed_dirs); the call reads the file
\* system and changes nothing, so one call per behaviour covers them all.
CheckPath(path, allowed_dirs) ==
    /\ pa = NoCall
    /\ pa' = [path |-> path, roots |-> allowed_dirs,
              result |-> is_path_allowed(path, allowed_dirs),
              warned |-> is_path_allowed_warnings(path, allowed_dirs)]
    /\ UNCHANGED <<fsVars, regVars, cmd, io>>

NextPath == \E path \in PathPool, allowed_dirs \in RootLists :
                CheckPath(path, allowed_dirs)

SpecPath == InitPath /\ [][NextPath]_vars

-----------------------------------------------------------------------------
(* C1 *)

\* The canonical form of path is equal to, or a component-wise descendant
\* of, the canonical form of a resolvable root of the list.
ContainedInSomeRoot(path, roots) ==
    \E i \in 1..Len(roots) :
        /\ ~HasNul(roots[i]) /\ ~SymlinkLoop(roots[i])
        /\ LET r == Resolve(roots[i])
               c == Resolve(path)
           IN  /\ Len(r) <= Len(c)
               /\ \A j \in 1..Len(r) : c[j] = r[j]

LinkLeavesRoot ==
    /\ LinkInside \in DOMAIN symlinks
    /\ symlinks[LinkInside] \in {PathStr(OUTSIDE_DIR), <<".", ".", "/", "o">>}

\* C1: is_path_allowed(P, R) returns true iff the canonical form of P is
\* equal to or a component-wise descendant of the canonical form of a root
\* of R; a sibling whose name starts with the root's name, a '..' traversal
\* that ends outside the root and a link inside the root that points outside
\* give false, a missing path under the root gives true, an empty R false.
C1_AllowedIffContained ==
    pa.result \in {"True", "False"} =>
        /\ (pa.result = "True") <=> ContainedInSomeRoot(pa.path, pa.roots)
        /\ (pa.path = SiblingFile /\ pa.roots = ALLOWED_READ_DIRS)
               => pa.result = "False"
        /\ (/\ pa.roots = ALLOWED_READ_DIRS
            /\ \E k \in 1..MaxDotDot :
                  pa.path = PathStr(PROJECT_ROOT) \o DotDots(k) \o OutsideSecret)
               => pa.result = "False"
        /\ (/\ pa.roots = ALLOWED_READ_DIRS
            /\ pa.path = PathStr(<<Dp, Dc, Dx>>) \o DotDots(MaxDotDot) \o FileTxt)
               => pa.result = "False"
        /\ (/\ LinkLeavesRoot
            /\ pa.roots = ALLOWED_READ_DIRS
            /\ pa.path = PathStr(LinkInside) \o FileTxt)
               => pa.result = "False"
        /\ (pa.path = PathStr(PROJECT_ROOT) \o FileTxt /\ pa.roots = ALLOWED_READ_DIRS)
               => pa.result = "True"
        /\ pa.roots = <<>> => pa.result = "False"

\* A link inside the root whose target is outside was checked and refused.
C1_Witness ==
    /\ LinkLeavesRoot
    /\ pa.roots = ALLOWED_READ_DIRS
    /\ pa.path = PathStr(LinkInside) \o FileTxt
    /\ pa.result = "False"

-----------------------------------------------------------------------------
(* C21 *)

Resolvable(s) == ~HasNul(s) /\ ~SymlinkLoop(s)

\* The roots the loop comes to: those up to the first resolvable root that
\* contains the path.
Examined(path, roots, i) ==
    /\ i \in 1..Len(roots)
    /\ \A j \in 1..(i - 1) : ~ContainedInSomeRoot(path, <<roots[j]>>)

\* C21: is_path_allowed raises 'Invalid path' only when the path itself
\* cannot be resolved; a root that cannot be resolved is skipped with a
\* logged warning and is never fatal, so that a later resolvable root of the
\* same list still makes a contained path evaluate to true.
C21_UnresolvableRootSkippedWithWarning ==
    pa.result # "none" =>
        /\ (pa.result = "Invalid path") <=> ~Resolvable(pa.path)
        /\ Resolvable(pa.path) =>
              /\ (pa.result = "True") <=> ContainedInSomeRoot(pa.path, pa.roots)
              /\ \A i \in 1..Len(pa.roots) :
                    (Examined(pa.path, pa.roots, i) /\ ~Resolvable(pa.roots[i]))
                        => \E k \in 1..Len(pa.warned) : pa.warned[k] = pa.roots[i]

\* The same, the warning being asked for only of a root whose resolution
\* fails with an error other than ValueError.
C21_RootSkippedWarnedUnlessValueError ==
    pa.result # "none" =>
        /\ (pa.result = "Invalid path") <=> ~Resolvable(pa.path)
        /\ Resolvable(pa.path) =>
              /\ (pa.result = "True") <=> ContainedInSomeRoot(pa.path, pa.roots)
              /\ \A i \in 1..Len(pa.roots) :
                    Examined(pa.path, pa.roots, i) =>
                        ((\E k \in 1..Len(pa.warned) : pa.warned[k] = pa.roots[i])
                            <=> (~HasNul(pa.roots[i]) /\ SymlinkLoop(pa.roots[i])))


-----------------------------------------------------------------------------
(* utilities/tools/code_ops.py *)

S_version == <<"-", "-", "v", "e", "r", "s", "i", "o", "n">>
S_k == <<"-", "k">>
S_m == <<"-", "m">>
S_c == <<"-", "c">>
S_py_compile == <<"p", "y", "_", "c", "o", "m", "p", "i", "l", "e">>
S_line_length == <<"-", "-", "l", "i", "n", "e", "-", "l", "e", "n", "g", "t", "h">>

\* The mutant's policy has a fifth command type.
ALLOWED_COMMANDS_with_rm ==
    [t \in {"pytest", "python", "black", "ruff", "rm"} |->
        CASE t = "pytest" ->
               [allowed_args |-> <<S_version, <<"-", "v">>, <<"-", "-", "v", "e", "r", "b", "o", "s", "e">>, <<"-", "x">>,
                                   <<"-", "-", "t", "b", "=", "s", "h", "o", "r", "t">>, <<"-", "-", "t", "b", "=", "l", "o", "n", "g">>, S_k>>,
                forbidden_patterns |-> <<>>]
          [] t = "python" ->
               [allowed_args |-> <<S_version, S_m, S_py_compile>>,
                forbidden_patterns |-> <<S_c, <<"-", "-", "c", "o", "m", "m", "a", "n", "d">>, <<"e", "x", "e", "c">>, <<"e", "v", "a", "l">>,
                                         <<"o", "s", ".", "s", "y", "s", "t", "e", "m">>, <<"s", "u", "b", "p", "r", "o", "c", "e", "s", "s">>>>]
          [] t = "black" ->
               [allowed_args |-> <<S_version, <<"-", "-", "c", "h", "e", "c", "k">>, <<"-", "-", "d", "i", "f", "f">>,
                                   S_line_length>>,
                forbidden_patterns |-> <<>>]
          [] t \in {"ruff", "rm"} ->
               [allowed_args |-> <<S_version, <<"c", "h", "e", "c", "k">>>>,
                forbidden_patterns |-> <<>>]]

ALLOWED_COMMANDS ==
    [t \in {"pytest", "python", "black", "ruff"} |->
        CASE t = "pytest" ->
               [allowed_args |-> <<S_version, <<"-", "v">>, <<"-", "-", "v", "e", "r", "b", "o", "s", "e">>, <<"-", "x">>,
                                   <<"-", "-", "t", "b", "=", "s", "h", "o", "r", "t">>, <<"-", "-", "t", "b", "=", "l", "o", "n", "g">>, S_k>>,
                forbidden_patterns |-> <<>>]
          [] t = "python" ->
               [allowed_args |-> <<S_version, S_m, S_py_compile>>,
                forbidden_patterns |-> <<S_c, <<"-", "-", "c", "o", "m", "m", "a", "n", "d">>, <<"e", "x", "e", "c">>, <<"e", "v", "a", "l">>,
                                         <<"o", "s", ".", "s", "y", "s", "t", "e", "m">>, <<"s", "u", "b", "p", "r", "o", "c", "e", "s", "s">>>>]
          [] t = "black" ->
               [allowed_args |-> <<S_version, <<"-", "-", "c", "h", "e", "c", "k">>, <<"-", "-", "d", "i", "f", "f">>,
                                   S_line_length>>,
                forbidden_patterns |-> <<>>]
          [] t = "ruff" ->
               [allowed_args |-> <<S_version, <<"c", "h", "e", "c", "k">>>>,
                forbidden_patterns |-> <<>>]]

FileSuffixes == {<<".", "p", "y">>, <<".", "j", "s", "o", "n", "l">>, <<".", "j", "s", "o", "n">>, <<".", "t", "x", "t">>}

Digits == {"0", "1", "2", "3", "4", "5", "6", "7", "8", "9"}

\* " ".join(args)
RECURSIVE JoinSpace(_)
JoinSpace(args) ==
    IF args = <<>> THEN <<>>
    ELSE IF Len(args) = 1 THEN args[1]
         ELSE args[1] \o <<" ">> \o JoinSpace(Tail(args))

\* arg.endswith(('.py', '.jsonl', '.json', '.txt')) or '/' in arg
LooksLikePath(arg) ==
    (\E suf \in FileSuffixes : EndsWith(arg, suf)) \/ HasChar(arg, "/")

\* str.isdigit()
isdigit(arg) == arg # <<>> /\ \A i \in 1..Len(arg) : arg[i] \in Digits

\* args[args.index(arg) - 1]: the element before the first occurrence of
\* arg; Python's index -1 is the last element of the list.
BeforeFirstOccurrence(args, arg) ==
    LET i == CHOOSE n \in 1..Len(args) :
                 args[n] = arg /\ \A j \in 1..(n - 1) : args[j] # arg
    IN  IF i = 1 THEN args[Len(args)] ELSE args[i - 1]

MatchesAllowedArg(command_type, arg) ==
    \E n \in 1..Len(ALLOWED_COMMANDS[command_type].allowed_args) :
        LET allowed_arg == ALLOWED_COMMANDS[command_type].allowed_args[n]
        IN  arg = allowed_arg \/ StartsWith(arg, allowed_arg \o <<"=">>)

\* The body of the first loop over args: the argument is let through.
ArgPasses(command_type, args, arg) ==
    \/ LooksLikePath(arg)
    \/ isdigit(arg)
    \/ (Len(args) > 1 /\ BeforeFirstOccurrence(args, arg) = S_k)
    \/ MatchesAllowedArg(command_type, arg)

\* The mutant looks for a forbidden pattern as a whole argument.
HasForbiddenPatternAsArg(command_type, args) ==
    \E n \in 1..Len(ALLOWED_COMMANDS[command_type].forbidden_patterns) :
        \E i \in 1..Len(args) :
            args[i] = ALLOWED_COMMANDS[command_type].forbidden_patterns[n]

\* pattern in args_str, for some forbidden pattern of the command type
HasForbiddenPattern(command_type, args) ==
    \E n \in 1..Len(ALLOWED_COMMANDS[command_type].forbidden_patterns) :
        Contains(JoinSpace(args),
                 ALLOWED_COMMANDS[command_type].forbidden_patterns[n])

\* The mutant leaves out the second loop over args.
CheckPathArgsSkipped(args) == "ok"

\* The second loop over args: every path-like argument goes through
\* is_path_allowed, in list order.
RECURSIVE CheckPathArgs(_)
CheckPathArgs(args) ==
    IF args = <<>> THEN "ok"
    ELSE IF ~LooksLikePath(Head(args)) THEN CheckPathArgs(Tail(args))
         ELSE LET r == is_path_allowed(Head(args), ALLOWED_READ_DIRS)
              IN  IF r = "Invalid path" THEN "Invalid path"
                  ELSE IF r = "False" THEN "File path in arguments not allowed"
                       ELSE CheckPathArgs(Tail(args))

\* The mutant applies the per-argument rule before the forbidden patterns.
validate_command_args_rule_first(command_type, args) ==
    IF \E i \in 1..Len(args) : ~ArgPasses(command_type, args, args[i])
    THEN "Argument not allowed"
    ELSE IF HasForbiddenPattern(command_type, args) THEN "Forbidden pattern"
         ELSE CheckPathArgs(args)

\* "ok", or the ToolException raised.
validate_command_args(command_type, args) ==
    IF HasForbiddenPattern(command_type, args) THEN "Forbidden pattern"
    ELSE IF \E i \in 1..Len(args) : ~ArgPasses(command_type, args, args[i])
         THEN "Argument not allowed"
         ELSE CheckPathArgs(args)


\* `if working_directory:` -- None and '' both select the default.
WdGiven(working_directory) ==
    ~working_directory.none /\ working_directory.s # <<>>

Raised(validation, error) ==
    [validation |-> validation, error |-> error, spawned |-> FALSE,
     killed |-> FALSE, returned |-> FALSE, success |-> FALSE, exit_code |-> -1,
     run_cwd |-> <<>>]

\* subprocess.run(cmd, capture_output=True, text=True, timeout=timeout, cwd=cwd)
\* and the handlers around it; child is what the operating system and the
\* child process do: "oserror" (the executable or cwd cannot be used, no
\* child exists), "timeout" (the child is killed), or an exit code; with
\* text=True the captured output is decoded, and output that is not valid
\* text makes communicate() raise after the child has exited.
Spawn(run_cwd, child) ==
    IF child.kind = "oserror"
    THEN Raised("ok", "Error running command")
    ELSE IF child.kind = "timeout"
         THEN [Raised("ok", "Command timed out") EXCEPT
                   !.spawned = TRUE, !.killed = TRUE, !.run_cwd = run_cwd]
         ELSE IF ~child.decodable
         THEN [Raised("ok", "Error running command") EXCEPT
                   !.spawned = TRUE, !.run_cwd = run_cwd]
         ELSE [validation |-> "ok", error |-> "none", spawned |-> TRUE,
               killed |-> FALSE, returned |-> TRUE,
               success |-> (child.code = 0), exit_code |-> child.code,
               run_cwd |-> run_cwd]

\* The mutant runs the command in whatever working directory it is given.
CheckWorkingDirectoryUnchecked(working_directory) ==
    IF HasNul(working_directory.s) THEN "Invalid path" ELSE "ok"

\* The `if working_directory:` branch of run_safe_command.
CheckWorkingDirectory(working_directory) ==
    LET r == is_path_allowed(working_directory.s, ALLOWED_READ_DIRS)
    IN  IF r = "Invalid path" THEN "Invalid path"
        ELSE IF r = "False" THEN "Working directory not allowed"
             ELSE "ok"

run_safe_command(command_type, command_args, working_directory, child) ==
    IF command_type \notin DOMAIN ALLOWED_COMMANDS
    THEN Raised("skipped", "Command type not allowed")
    ELSE LET v == validate_command_args(command_type, command_args)
         IN  IF v # "ok" THEN Raised(v, v)
             ELSE IF WdGiven(working_directory)
                  THEN LET w == CheckWorkingDirectory(working_directory)
                       IN  IF w # "ok" THEN Raised("ok", w)
                           ELSE Spawn(working_directory.s, child)
                  ELSE Spawn(ALLOWED_READ_DIRS[1], child)

-----------------------------------------------------------------------------
(* run_safe_command: inputs and state machine *)

CommandTypes == {"pytest", "python", "black", "ruff", "rm", "curl", "sudo"}

InsideScript == <<"/", "p", "/", "s", ".", "p", "y">>
OutsideScript == <<"/", "o", "/", "s", ".", "p", "y">>
LinkedScript == <<"/", "p", "/", "l", "/", "s", ".", "p", "y">>
RelativeScript == <<"s", ".", "p", "y">>
ExecNamedScript == <<"/", "p", "/", "e", "x", "e", "c", ".", "p", "y">>
Word == <<"r", "m">>

ArgPool ==
    { S_version, S_c, S_m, S_py_compile, S_k, <<"7">>,
      InsideScript, OutsideScript, LinkedScript, RelativeScript,
      ExecNamedScript, S_line_length \o <<"=", "8">>, Word, <<"/", NUL>> }

ArgLists == UNION { [1..n -> ArgPool] : n \in 0..MaxArgs }

WdPool ==
    { [none |-> TRUE, s |-> <<>>], [none |-> FALSE, s |-> <<>>],
      [none |-> FALSE, s |-> PathStr(PROJECT_ROOT)],
      [none |-> FALSE, s |-> PathStr(OUTSIDE_DIR)],
      [none |-> FALSE, s |-> PathStr(LinkInside)] }

ChildOutcomes ==
    { [kind |-> "exit", code |-> 0, decodable |-> TRUE],
      [kind |-> "exit", code |-> 1, decodable |-> TRUE],
      [kind |-> "exit", code |-> 0, decodable |-> FALSE],
      [kind |-> "timeout", code |-> -1, decodable |-> TRUE],
      [kind |-> "oserror", code |-> -1, decodable |-> TRUE] }

InitCmd ==
    /\ symlinks \in {NoLinks, [x \in {LinkInside} |-> PathStr(OUTSIDE_DIR)]}
    /\ cwd \in {PROJECT_ROOT, OUTSIDE_DIR}
    /\ pa = NoCall
    /\ cmd \in [status : {"pending"}, type : CommandTypes, args : ArgLists,
                wd : WdPool]
    /\ InitRest

\* One call of the run_safe_command tool.
RunSafeCommand ==
    /\ cmd.status = "pending"
    /\ \E child \in ChildOutcomes :
          cmd' = [status |-> "done", type |-> cmd.type, args |-> cmd.args,
                  wd |-> cmd.wd,
                  out |-> run_safe_command(cmd.type, cmd.args, cmd.wd, child)]
    /\ UNCHANGED <<fsVars, regVars, pa, io>>

NextCmd == RunSafeCommand

SpecCmd == InitCmd /\ [][NextCmd]_vars


-----------------------------------------------------------------------------
(* C2, C3, C6, C7, C8: run_safe_command *)

PolicyKeys == {"pytest", "python", "black", "ruff"}

PythonForbidden ==
    {S_c, <<"-", "-", "c", "o", "m", "m", "a", "n", "d">>, <<"e", "x", "e", "c">>, <<"e", "v", "a", "l">>, <<"o", "s", ".", "s", "y", "s", "t", "e", "m">>, <<"s", "u", "b", "p", "r", "o", "c", "e", "s", "s">>}

ForbiddenOf(command_type) ==
    IF command_type = "python" THEN PythonForbidden ELSE {}

InsideReadRoots(path) ==
    ~HasNul(path) /\ ContainedInSomeRoot(path, ALLOWED_READ_DIRS)

ValidationErrors ==
    {"Command type not allowed", "Forbidden pattern", "Argument not allowed",
     "File path in arguments not allowed", "Invalid path",
     "Working directory not allowed"}

Done == cmd.status = "done"

\* Every check run_safe_command makes holds of the call.
AllChecksPass ==
    /\ cmd.type \in PolicyKeys
    /\ \A pat \in ForbiddenOf(cmd.type) : ~Contains(JoinSpace(cmd.args), pat)
    /\ \A i \in 1..Len(cmd.args) : ArgPasses(cmd.type, cmd.args, cmd.args[i])
    /\ \A i \in 1..Len(cmd.args) :
          LooksLikePath(cmd.args[i]) => InsideReadRoots(cmd.args[i])
    /\ WdGiven(cmd.wd) => InsideReadRoots(cmd.wd.s)

AllowedFlagsOf(command_type) ==
    CASE command_type = "pytest" ->
           {S_version, <<"-", "v">>, <<"-", "-", "v", "e", "r", "b", "o", "s", "e">>, <<"-", "x">>, <<"-", "-", "t", "b", "=", "s", "h", "o", "r", "t">>,
            <<"-", "-", "t", "b", "=", "l", "o", "n", "g">>, S_k}
      [] command_type = "python" -> {S_version, S_m, S_py_compile}
      [] command_type = "black" ->
           {S_version, <<"-", "-", "c", "h", "e", "c", "k">>, <<"-", "-", "d", "i", "f", "f">>, S_line_length}
      [] command_type = "ruff" -> {S_version, <<"c", "h", "e", "c", "k">>}

ArgAllowedByRule(command_type, arg) ==
    \/ LooksLikePath(arg) /\ InsideReadRoots(arg)
    \/ isdigit(arg)
    \/ \E flag \in AllowedFlagsOf(command_type) :
          arg = flag \/ StartsWith(arg, flag \o <<"=">>)

\* C3: argument validation accepts a list only if every argument, at every
\* position, is a path inside the read-allowed roots, or digits, or an
\* allowed flag (exactly, or followed by '='); any other list is rejected
\* with 'argument not allowed'.
C3_EveryArgumentAllowed ==
    (Done /\ cmd.out.validation = "ok") =>
        \A i \in 1..Len(cmd.args) : ArgAllowedByRule(cmd.type, cmd.args[i])

\* The interpreter takes a first argument that is no option as the script
\* file to execute.
ExecutesScript(args) == args # <<>> /\ Head(args)[1] # "-"

\* C6 as stated: no accepted python argument list makes the interpreter
\* execute a script file.
C6_NoScriptExecuted ==
    (Done /\ cmd.type = "python" /\ cmd.out.spawned) => ~ExecutesScript(cmd.args)

\* C6 as amended: for python, inline code is refused, and a script file is
\* executed only from inside the read-allowed roots: every path-like
\* argument of a spawned invocation resolves inside them, and a script
\* inside them is accepted and run.
C6_PythonRunsScriptsInsideRoots ==
    (Done /\ cmd.type = "python") =>
        /\ cmd.out.spawned =>
              /\ \A i \in 1..Len(cmd.args) :
                    /\ cmd.args[i] # S_c
                    /\ LooksLikePath(cmd.args[i]) => InsideReadRoots(cmd.args[i])
        /\ (cmd.args = <<InsideScript>> /\ ~WdGiven(cmd.wd))
              => cmd.out.validation = "ok" /\ cmd.out.error \notin ValidationErrors

\* The interpreter was spawned on a script file under the project root.
C6_Witness ==
    /\ Done
    /\ cmd.type = "python" /\ cmd.args = <<InsideScript>>
    /\ cmd.out.spawned /\ cmd.out.returned

\* C7: a command type that is not one of the four policy keys is rejected
\* with 'not allowed' for every argument list and working directory, with
\* no argument validation and no spawn.
C7_UnknownCommandRejected ==
    (Done /\ cmd.type \notin PolicyKeys) =>
        /\ cmd.out.error = "Command type not allowed"
        /\ cmd.out.validation = "skipped"
        /\ ~cmd.out.spawned
        /\ ~cmd.out.returned

\* rm was asked for with arguments that would pass every other check.
C7_Witness ==
    /\ Done
    /\ cmd.type = "rm" /\ cmd.args = <<S_version>> /\ ~WdGiven(cmd.wd)
    /\ cmd.out.error = "Command type not allowed"

\* C8: for python, an argument list whose space-joined text holds '-c' or
\* another forbidden substring is rejected with 'Forbidden pattern',
\* whatever the other arguments are, and nothing is spawned.
C8_ForbiddenSubstringRejected ==
    (/\ Done
     /\ cmd.type = "python"
     /\ \E pat \in PythonForbidden : Contains(JoinSpace(cmd.args), pat)) =>
        /\ cmd.out.error = "Forbidden pattern"
        /\ ~cmd.out.spawned
        /\ ~cmd.out.returned

\* A path argument inside the roots whose name holds 'exec' was refused.
C8_Witness ==
    /\ Done
    /\ cmd.type = "python"
    /\ \E i \in 1..Len(cmd.args) : cmd.args[i] = ExecNamedScript
    /\ \A i \in 1..Len(cmd.args) : cmd.args[i] # S_c
    /\ cmd.out.error = "Forbidden pattern"

-----------------------------------------------------------------------------
(* C19, C20: run_safe_command after validation, and the order of its checks *)

\* The child exited before the timeout and the call returned its result.
ReturnedResult ==
    /\ cmd.out.returned
    /\ cmd.out.error = "none"
    /\ ~cmd.out.killed
    /\ cmd.out.success <=> (cmd.out.exit_code = 0)

\* The timeout fired: the child was killed and the call raised.
TimedOut ==
    /\ cmd.out.error = "Command timed out"
    /\ cmd.out.killed
    /\ ~cmd.out.returned

\* C19: once validation has passed and the child is spawned, the call has
\* exactly two kinds of outcome: the child exits before the timeout and the
\* call returns a result whose success is true exactly when exit_code is 0
\* (a non-zero exit code does not raise), or the timeout fires, the child is
\* killed, 'timed out' is raised and no result is returned.
C19_TwoOutcomesAfterSpawn ==
    (Done /\ cmd.out.validation = "ok" /\ cmd.out.spawned) =>
        ReturnedResult \/ TimedOut

SomeForbiddenSubstring ==
    \E pat \in ForbiddenOf(cmd.type) : Contains(JoinSpace(cmd.args), pat)

SomeArgumentRefused ==
    \E i \in 1..Len(cmd.args) :
        \/ ~ArgPasses(cmd.type, cmd.args, cmd.args[i])
        \/ LooksLikePath(cmd.args[i]) /\ ~InsideReadRoots(cmd.args[i])

WorkingDirectoryRefused ==
    WdGiven(cmd.wd) /\ ~InsideReadRoots(cmd.wd.s)

\* The errors of the earliest check the call violates; the errors of the
\* run itself when it violates none.
ErrorsOfEarliestViolatedCheck ==
    IF cmd.type \notin PolicyKeys THEN {"Command type not allowed"}
    ELSE IF SomeForbiddenSubstring THEN {"Forbidden pattern"}
    ELSE IF SomeArgumentRefused
         THEN {"Argument not allowed", "File path in arguments not allowed",
               "Invalid path"}
    ELSE IF WorkingDirectoryRefused
         THEN {"Working directory not allowed", "Invalid path"}
    ELSE {"none", "Command timed out", "Error running command"}

\* C20: the checks of run_safe_command are applied in the order command
\* type, forbidden substrings, per-argument rule and path containment,
\* working directory; a call that violates several of them raises the error
\* of the earliest one, and a call without a working directory runs in the
\* first allowed read root.
C20_EarliestViolatedCheckReported ==
    Done =>
        /\ cmd.out.error \in ErrorsOfEarliestViolatedCheck
        /\ (cmd.out.spawned /\ ~WdGiven(cmd.wd))
              => cmd.out.run_cwd = ALLOWED_READ_DIRS[1]

\* python was called with '-c', a word that is no allowed argument and a
\* working directory outside the roots, and reported the forbidden pattern.
C20_Witness ==
    /\ Done
    /\ cmd.type = "python" /\ cmd.args = <<S_c, Word>>
    /\ cmd.wd.s = PathStr(OUTSIDE_DIR)
    /\ cmd.out.error = "Forbidden pattern"

-----------------------------------------------------------------------------
(* utilities/handles_registry.py and the JSONL tools of file_ops.py *)

\* Path.exists() and Path.is_file() follow links.  The '..' segments of the
\* paths used here follow existing directories, where the lexical
\* resolution of Resolve and the kernel's agree.
\* The mutant finds no path present.
ExistsNever(path) == FALSE

Exists(path) == Resolve(path) \in DOMAIN files \/ Resolve(path) \in dirs
IsFile(path) == Resolve(path) \in DOMAIN files
IsDir(path) == Resolve(path) \in dirs

\* PurePath.suffix: the last component from its last '.', when that is not
\* its first character.
Suffix(path) ==
    IF Parts(path) = <<>> THEN <<>>
    ELSE LET name == Parts(path)[Len(Parts(path))]
             dots == {i \in 2..Len(name) : name[i] = "."}
         IN  IF dots = {} THEN <<>>
             ELSE LET k == CHOOSE i \in dots : \A j \in dots : j <= i
                  IN  SubSeq(name, k, Len(name))

\* str.lower()
LowerChar(c) ==
    CASE c = "J" -> "j" [] c = "S" -> "s" [] c = "O" -> "o"
      [] c = "N" -> "n" [] c = "L" -> "l" [] OTHER -> c
Lower(str) == [i \in 1..Len(str) |-> LowerChar(str[i])]

Min(a, b) == IF a <= b THEN a ELSE b

Put(f, k, v) == [x \in DOMAIN f \cup {k} |-> IF x = k THEN v ELSE f[x]]

\* The mutant leaves the entry in the table.
KeepEntry(f, k) == f

Drop(f, k) == [x \in DOMAIN f \ {k} |-> f[x]]

\* HandlesRegistry.add_handle_entry
add_handle_entry(registry, handle_entry) ==
    Put(registry, handle_entry.id, handle_entry)

\* The mutant reads every batch from the start of the file.
ReadBatchFromStart(content, pos, number_of_lines) ==
    SubSeq(content, 1, Min(number_of_lines, Len(content)))

\* [line for line in islice(handle, number_of_lines)]
ReadBatch(content, pos, number_of_lines) ==
    SubSeq(content, pos + 1, Min(pos + number_of_lines, Len(content)))

\* The mutant counts the lines asked for.
CountAsked(lines_read, number_of_lines, data) == lines_read + number_of_lines

\* entry.lines_read += len(data)
CountRead(lines_read, number_of_lines, data) == lines_read + Len(data)

\* A tool call that raised ToolException before it opened or changed
\* anything.  opened: the files and directories the call opened for reading;
\* changed: the files and directories it created or wrote.
IoError(op, path, error) ==
    [op |-> op, path |-> path, error |-> error, opened |-> {}, changed |-> {}]

\* open_and_register_jsonl(path)
OpenAndRegisterJsonl(path) ==
    /\ io = Idle
    /\ IF ~Exists(path) \/ Lower(Suffix(path)) # <<".", "j", "s", "o", "n", "l">>
       THEN /\ io' = IoError("open_and_register_jsonl", path,
                             "File not found or not .jsonl")
            /\ UNCHANGED regVars
       ELSE IF ~IsFile(path)
            THEN /\ io' = IoError("open_and_register_jsonl", path,
                                  "Error getting file handle")
                 /\ UNCHANGED regVars
            ELSE LET handle_entry_id == issued + 1
                     entry == [id |-> handle_entry_id, type |-> "file",
                               path |-> path, lines_read |-> 0,
                               handle |-> handle_entry_id]
                 IN  /\ issued' = handle_entry_id
                     /\ streams' = Put(streams, handle_entry_id,
                                       [file |-> Resolve(path), pos |-> 0])
                     /\ id_to_handle' = add_handle_entry(id_to_handle, entry)
                     /\ returned' = Put(returned, handle_entry_id, <<>>)
                     /\ io' = [op |-> "open_and_register_jsonl", path |-> path,
                               error |-> "none", opened |-> {Resolve(path)},
                               changed |-> {}, id |-> handle_entry_id]
    /\ UNCHANGED <<fsVars, pa, cmd>>

\* read_jsonl(handle_entry_id, number_of_lines)
ReadJsonl(handle_entry_id, number_of_lines) ==
    /\ io = Idle
    /\ LET known == handle_entry_id \in DOMAIN id_to_handle
           before == [op |-> "read_jsonl", id |-> handle_entry_id,
                      n |-> number_of_lines, known |-> known, data |-> <<>>,
                      error |-> "none",
                      returned_before |->
                          IF known THEN Len(returned[handle_entry_id]) ELSE 0,
                      lines_read_before |->
                          IF known THEN id_to_handle[handle_entry_id].lines_read
                          ELSE 0]
       IN  IF number_of_lines < 1
           THEN /\ io' = [before EXCEPT
                            !.error = "Number of lines must be greater than 0"]
                /\ UNCHANGED regVars
           ELSE IF ~known
                THEN /\ io' = [before EXCEPT
                                 !.error = "Invalid or expired handle"]
                     /\ UNCHANGED regVars
                ELSE IF id_to_handle[handle_entry_id].handle \notin DOMAIN streams
                THEN \* islice on a closed stream raises ValueError
                     /\ io' = [before EXCEPT
                                 !.error = "I/O operation on closed file"]
                     /\ UNCHANGED regVars
                ELSE LET entry == id_to_handle[handle_entry_id]
                         handle == entry.handle
                         data == ReadBatch(files[streams[handle].file],
                                           streams[handle].pos, number_of_lines)
                     IN  /\ streams' = [streams EXCEPT
                                          ![handle].pos = @ + Len(data)]
                         /\ id_to_handle' =
                               [id_to_handle EXCEPT
                                  ![handle_entry_id].lines_read =
                                      CountRead(@, number_of_lines, data)]
                         /\ returned' = [returned EXCEPT
                                           ![handle_entry_id] = @ \o data]
                         /\ io' = [before EXCEPT !.data = data]
                         /\ UNCHANGED issued
    /\ UNCHANGED <<fsVars, pa, cmd>>

\* close_jsonl(handle_entry_id), with
\* HandlesRegistry.close_and_remove_handle_entry
CloseJsonl(handle_entry_id) ==
    /\ io = Idle
    /\ IF handle_entry_id \notin DOMAIN id_to_handle
       THEN /\ io' = [op |-> "close_jsonl", id |-> handle_entry_id,
                      error |-> "Error closing handle entry id"]
            /\ UNCHANGED regVars
       ELSE /\ streams' = Drop(streams, id_to_handle[handle_entry_id].handle)
            /\ id_to_handle' = Drop(id_to_handle, handle_entry_id)
            /\ returned' = Drop(returned, handle_entry_id)
            /\ io' = [op |-> "close_jsonl", id |-> handle_entry_id,
                      error |-> "none"]
            /\ UNCHANGED issued
    /\ UNCHANGED <<fsVars, pa, cmd>>

\* The caller takes the tool's result (or its ToolException).
ToolReturn ==
    /\ io # Idle
    /\ io' = Idle
    /\ UNCHANGED <<fsVars, regVars, pa, cmd>>

JsonlPaths ==
    { PathStr(FileA), PathStr(FileB), PathStr(FileR),
      PathStr(LinkInside) \o <<"/", "b", ".", "j", "s", "o", "n", "l">>, <<"/", "p", "/", "n", ".", "j", "s", "o", "n", "l">> }

HandleIds == 1..MaxOpens

InitReg ==
    /\ symlinks \in {NoLinks, [x \in {LinkInside} |-> PathStr(OUTSIDE_DIR)]}
    /\ cwd = PROJECT_ROOT
    /\ pa = NoCall
    /\ cmd = NoCommand
    /\ InitRest

NextReg ==
    \/ \E path \in JsonlPaths : issued < MaxOpens /\ OpenAndRegisterJsonl(path)
    \/ \E id \in HandleIds, n \in 0..MaxRead : ReadJsonl(id, n)
    \/ \E id \in HandleIds : CloseJsonl(id)
    \/ ToolReturn

SpecReg == InitReg /\ [][NextReg]_vars

\* HandlesRegistry.clear_registry(), called on the registry the tools use
ClearRegistry ==
    /\ io = Idle
    /\ id_to_handle # NoEntries
    /\ id_to_handle' = NoEntries
    /\ returned' = NoEntries
    /\ io' = [op |-> "clear_registry", error |-> "none"]
    /\ UNCHANGED <<fsVars, streams, issued, pa, cmd>>

\* HandlesRegistry.add_handle_entry(handle_entry), called with an entry the
\* caller holds
AddHandleEntry(handle_entry) ==
    /\ io = Idle
    /\ id_to_handle' = add_handle_entry(id_to_handle, handle_entry)
    /\ returned' = Put(returned, handle_entry.id, <<>>)
    /\ io' = [op |-> "add_handle_entry", id |-> handle_entry.id,
              error |-> "none"]
    /\ UNCHANGED <<fsVars, streams, issued, pa, cmd>>

\* The entries a caller can hand to add_handle_entry: an entry of the
\* registry, under its own or another id
HeldEntries ==
    { [id_to_handle[j] EXCEPT !.id = i] :
        j \in DOMAIN id_to_handle, i \in HandleIds }

\* The registry with all the operations of HandlesRegistry
NextRegistry ==
    \/ NextReg
    \/ ClearRegistry
    \/ \E handle_entry \in HeldEntries : AddHandleEntry(handle_entry)

SpecRegistry == InitReg /\ [][NextRegistry]_vars

-----------------------------------------------------------------------------
(* C9, C10: the streaming reader *)

ReadDone == io.op = "read_jsonl" /\ io.error = "none"

\* The lines of the file a registered handle was opened on.
FileLinesOf(id) == files[Resolve(id_to_handle[id].path)]

C10_LinesReadCountsReturnedLines ==
    /\ \A id \in DOMAIN id_to_handle :
          /\ id_to_handle[id].lines_read = Len(returned[id])
          /\ id_to_handle[id].lines_read <= Len(FileLinesOf(id))
    /\ (io.op = "open_and_register_jsonl" /\ io.error = "none") =>
          id_to_handle[io.id].lines_read = 0
    /\ ReadDone =>
          id_to_handle[io.id].lines_read = io.lines_read_before + Len(io.data)
    /\ (ReadDone /\ io.returned_before = Len(FileLinesOf(io.id))) =>
          id_to_handle[io.id].lines_read = io.lines_read_before
    /\ (io.op = "read_jsonl" /\ io.error # "none" /\ io.known) =>
          id_to_handle[io.id].lines_read = io.lines_read_before

\* lines_read reached 5 with the one-line third batch of 2.
C10_Witness ==
    /\ ReadDone
    /\ io.n = 2 /\ Len(io.data) = 1
    /\ io.lines_read_before = 4
    /\ id_to_handle[io.id].lines_read = 5



-----------------------------------------------------------------------------
(* C11: the life of a handle id *)

\* The ids handed out so far, and those of them that were closed.
IssuedIds == 1..issued
ClosedIds == IssuedIds \ DOMAIN id_to_handle

\* The state of the registry a failed call must leave alone.
RegistryState == <<id_to_handle, streams, returned>>

\* A read_jsonl or close_jsonl call made on an id that has no entry.
CallOnDeadId ==
    /\ io = Idle
    /\ io'.op \in {"read_jsonl", "close_jsonl"}
    /\ io'.id \notin DOMAIN id_to_handle

\* A step that is such a call fails with the error named and changes nothing.
DeadIdCallFails(read_error) ==
    /\ io'.error = (IF io'.op = "read_jsonl" THEN read_error
                    ELSE "Error closing handle entry id")
    /\ RegistryState' = RegistryState

\* C11 as stated: every read on an id that was never issued or was already
\* closed fails with 'Invalid or expired handle', every close on such an id
\* fails, and the failed call leaves the registry as it was.
C11_DeadHandleAlwaysInvalid ==
    [][CallOnDeadId => DeadIdCallFails("Invalid or expired handle")]_vars

\* C11: an id has an entry exactly from its open to its first close, and a
\* closed id never gets one again; a read of at least one line on an id
\* without an entry fails with 'Invalid or expired handle' (a read of fewer
\* than one line fails with 'Number of lines must be greater than 0'
\* whatever the id), a close on such an id fails, so a second close fails;
\* these failed calls leave the entries, the stream positions and the
\* lines_read of every handle as they were.
C11_HandleUsableBetweenOpenAndClose ==
    [][/\ DOMAIN id_to_handle' \subseteq IssuedIds'
       /\ ClosedIds \subseteq ClosedIds'
       /\ (io = Idle /\ io'.op = "close_jsonl" /\ io'.error = "none") =>
             /\ io'.id \in DOMAIN id_to_handle
             /\ io'.id \in ClosedIds'
             /\ io'.id \notin DOMAIN streams'
       /\ (io = Idle /\ io'.op = "read_jsonl"
             /\ io'.id \in DOMAIN id_to_handle /\ io'.n >= 1) =>
             io'.error = "none"
       /\ CallOnDeadId =>
             DeadIdCallFails(IF io'.op = "read_jsonl" /\ io'.n < 1
                             THEN "Number of lines must be greater than 0"
                             ELSE "Invalid or expired handle")]_vars

\* The second close of a handle has failed while another handle, already
\* read from, is still registered.
C11_Witness ==
    /\ io.op = "close_jsonl"
    /\ io.error = "Error closing handle entry id"
    /\ io.id \in ClosedIds
    /\ \E other \in DOMAIN id_to_handle :
          /\ id_to_handle[other].lines_read = 2
          /\ streams[id_to_handle[other].handle].pos = 2

-----------------------------------------------------------------------------
(* utilities/tools/file_ops.py: the stateless file tools *)

\* Path(file_path).parent, resolved
ParentOf(path) ==
    LET parts == Parts(path)
    IN  JoinReal(IF IsAbs(path) THEN <<>> ELSE cwd,
                 SubSeq(parts, 1, Len(parts) - 1), MaxLinkDepth)

Prefixes(comps) == {SubSeq(comps, 1, n) : n \in 0..Len(comps)}

\* _validate_file_path / _validate_directory_path: "ok" or the error raised
ValidatePath(path, allowed_dirs, want_dir) ==
    LET r == is_path_allowed(path, allowed_dirs)
    IN  IF r = "Invalid path" THEN "Invalid path"
        ELSE IF r = "False" THEN "Path not in allowed directories"
        ELSE IF ~Exists(path) THEN "Not found"
        ELSE IF want_dir /\ ~IsDir(path) THEN "Path is not a directory"
        ELSE IF ~want_dir /\ ~IsFile(path) THEN "Path is not a file"
        ELSE "ok"

\* read_file_content(file_path, max_lines)
ReadFileContent(file_path, max_lines) ==
    /\ io = Idle
    /\ LET v == ValidatePath(file_path, ALLOWED_READ_DIRS, FALSE)
           lines == files[Resolve(file_path)]
           limited == ~max_lines.none /\ max_lines.n # 0
       IN  IF v # "ok"
           THEN io' = IoError("read_file_content", file_path, v)
           ELSE IF limited /\ max_lines.n > Len(lines)
                THEN \* next(f) raises StopIteration at the end of the file
                     io' = [IoError("read_file_content", file_path,
                                    "Error reading file")
                            EXCEPT !.opened = {Resolve(file_path)}]
                ELSE io' = [op |-> "read_file_content", path |-> file_path,
                            error |-> "none", opened |-> {Resolve(file_path)},
                            changed |-> {}, max_lines |-> max_lines,
                            content |->
                               IF limited
                               THEN SubSeq(lines, 1, max_lines.n)
                               ELSE lines]
    /\ UNCHANGED <<fsVars, regVars, pa, cmd>>

\* list_directory_contents(directory_path, pattern=None, files_only)
ListDirectoryContents(directory_path, files_only) ==
    /\ io = Idle
    /\ LET v == ValidatePath(directory_path, ALLOWED_READ_DIRS, TRUE)
           d == Resolve(directory_path)
           children == {x \in DOMAIN files \cup
                               (IF files_only THEN {} ELSE dirs \cup DOMAIN symlinks) :
                           Len(x) = Len(d) + 1 /\ StartsWith(x, d)}
       IN  IF v # "ok"
           THEN io' = IoError("list_directory_contents", directory_path, v)
           ELSE io' = [op |-> "list_directory_contents",
                       path |-> directory_path, error |-> "none",
                       opened |-> {d}, changed |-> {}, results |-> children]
    /\ UNCHANGED <<fsVars, regVars, pa, cmd>>

\* line_count(path)
LineCount(path) ==
    /\ io = Idle
    /\ IF HasNul(path) \/ ~IsFile(path)
       THEN io' = IoError("line_count", path, "Error counting lines")
       ELSE io' = [op |-> "line_count", path |-> path, error |-> "none",
                   opened |-> {Resolve(path)}, changed |-> {},
                   count |-> Len(files[Resolve(path)])]
    /\ UNCHANGED <<fsVars, regVars, pa, cmd>>

\* write_file_content(file_path, content, overwrite)
WriteFileContent(file_path, content, overwrite) ==
    /\ io = Idle
    /\ LET r == is_path_allowed(file_path, ALLOWED_WRITE_DIRS)
           target == Resolve(file_path)
           parent == ParentOf(file_path)
           made == Prefixes(parent) \ dirs
       IN  IF r = "Invalid path"
           THEN /\ io' = IoError("write_file_content", file_path, "Invalid path")
                /\ UNCHANGED <<files, dirs>>
           ELSE IF r = "False"
           THEN /\ io' = IoError("write_file_content", file_path,
                                 "File path not in allowed write directories")
                /\ UNCHANGED <<files, dirs>>
           ELSE IF Exists(file_path) /\ ~overwrite
           THEN /\ io' = IoError("write_file_content", file_path,
                                 "File already exists")
                /\ UNCHANGED <<files, dirs>>
           ELSE IF Prefixes(parent) \cap DOMAIN files # {}
           THEN \* mkdir fails: a parent is a regular file
                /\ io' = IoError("write_file_content", file_path,
                                 "Error writing file")
                /\ UNCHANGED <<files, dirs>>
           ELSE IF target \in dirs \cup made
           THEN \* write_text fails on a directory, after mkdir
                /\ io' = [IoError("write_file_content", file_path,
                                  "Error writing file")
                          EXCEPT !.changed = made]
                /\ dirs' = dirs \cup made
                /\ UNCHANGED files
           ELSE /\ io' = [op |-> "write_file_content", path |-> file_path,
                          error |-> "none", opened |-> {},
                          changed |-> made \cup {target},
                          overwrite |-> overwrite]
                /\ dirs' = dirs \cup made
                /\ files' = Put(files, target, content)
    /\ UNCHANGED <<symlinks, cwd, regVars, pa, cmd>>

\* write_json(json_data, output_file)
WriteJson(json_data, output_file) ==
    /\ io = Idle
    /\ LET target == Resolve(output_file)
       IN  IF \/ HasNul(output_file)
              \/ Parts(output_file) = <<>>
              \/ ParentOf(output_file) \notin dirs
              \/ target \in dirs
           THEN /\ io' = IoError("write_json", output_file,
                                 "Error writing JSON data")
                /\ UNCHANGED <<files, dirs>>
           ELSE /\ io' = [op |-> "write_json", path |-> output_file,
                          error |-> "none", opened |-> {},
                          changed |-> {target}]
                /\ files' = Put(files, target, json_data)
                /\ UNCHANGED dirs
    /\ UNCHANGED <<symlinks, cwd, regVars, pa, cmd>>

ReadPaths ==
    { PathStr(FileA), PathStr(FileB), PathStr(FileR),
      PathStr(LinkInside) \o <<"/", "b", ".", "j", "s", "o", "n", "l">>,
      PathStr(PROJECT_ROOT) \o DotDots(1) \o PathStr(FileB),
      PathStr(CUSTOM_PARSERS_DIR), PathStr(OUTSIDE_DIR), <<"/", "p", "/", "n", ".", "j", "s", "o", "n", "l">> }

NewParser == PathStr(CUSTOM_PARSERS_DIR) \o <<"/", "n", ".", "p", "y">>
NewParserInNewDir == PathStr(CUSTOM_PARSERS_DIR) \o <<"/", "d", "/", "n", ".", "p", "y">>
OutsideJson == PathStr(OUTSIDE_DIR) \o <<"/", "w", ".", "j", "s", "o", "n">>

WritePaths ==
    { NewParser, NewParserInNewDir, OutsideJson,
      PathStr(CUSTOM_PARSERS_DIR) \o DotDots(2) \o OutsideJson,
      PathStr(LinkInWriteDir) \o <<"/", "w", ".", "j", "s", "o", "n">>,
      PathStr(CUSTOM_PARSERS_DIR) }

ContentPool == {LinesOf("w", 1), LinesOf("v", 2)}

MaxLinesPool ==
    {[none |-> TRUE, n |-> 0]} \cup {[none |-> FALSE, n |-> k] : k \in {0, 1, MaxRead}}

InitFiles ==
    /\ symlinks \in
          { NoLinks,
            [x \in {LinkInside, LinkInWriteDir} |-> PathStr(OUTSIDE_DIR)] }
    /\ cwd = PROJECT_ROOT
    /\ pa = NoCall
    /\ cmd = NoCommand
    /\ InitRest

NextFiles ==
    \/ \E path \in ReadPaths, max_lines \in MaxLinesPool :
          ReadFileContent(path, max_lines)
    \/ \E path \in ReadPaths, files_only \in BOOLEAN :
          ListDirectoryContents(path, files_only)
    \/ \E path \in ReadPaths : LineCount(path)
    \/ \E path \in WritePaths, content \in ContentPool, overwrite \in BOOLEAN :
          WriteFileContent(path, content, overwrite)
    \/ \E path \in WritePaths, json_data \in ContentPool :
          WriteJson(json_data, path)
    \/ \E path \in ReadPaths :
          issued < MaxFileOpens /\ OpenAndRegisterJsonl(path)
    \/ ToolReturn

SpecFiles == InitFiles /\ [][NextFiles]_vars

\* The writing tools alone: the reading tools change no file.
NextWrite ==
    \/ \E path \in WritePaths, content \in ContentPool, overwrite \in BOOLEAN :
          WriteFileContent(path, content, overwrite)
    \/ \E path \in WritePaths, json_data \in ContentPool :
          WriteJson(json_data, path)
    \/ ToolReturn

SpecWrite == InitFiles /\ [][NextWrite]_vars

-----------------------------------------------------------------------------
(* C4, C5: the allow-lists of the file tools *)

Under(comps, roots) ==
    \E i \in 1..Len(roots) :
        LET r == Resolve(roots[i])
        IN  Len(r) <= Len(comps) /\ SubSeq(comps, 1, Len(r)) = r

ReadingTools ==
    {"read_file_content", "list_directory_contents", "line_count",
     "open_and_register_jsonl"}

WritingTools == {"write_file_content", "write_json"}

\* C4: a reading file tool (read_file_content, list_directory_contents,
\* line_count, open_and_register_jsonl) opens a file or directory only when
\* the given path resolves inside a read-allowed root; a path outside them
\* is rejected before anything is opened.
C4_ReadsInsideReadRoots ==
    io.op \in ReadingTools =>
        /\ io.opened # {} =>
              /\ InsideReadRoots(io.path)
              /\ \A f \in io.opened : Under(f, ALLOWED_READ_DIRS)
        /\ ~InsideReadRoots(io.path) => io.error # "none"

\* C5: a writing file tool creates or modifies a file only when the target
\* resolves inside a write-allowed root; otherwise it fails and creates or
\* changes nothing.
C5_WritesInsideWriteRoots ==
    io.op \in WritingTools =>
        /\ io.changed # {} =>
              /\ ~HasNul(io.path)
              /\ ContainedInSomeRoot(io.path, ALLOWED_WRITE_DIRS)
              /\ \A f \in io.changed : Under(f, ALLOWED_WRITE_DIRS)
        /\ ~ContainedInSomeRoot(io.path, ALLOWED_WRITE_DIRS) =>
              io.error # "none" /\ io.changed = {}


-----------------------------------------------------------------------------
(* utilities/tools/parsers.py: str operations, with Python's 0-based      *)
(* positions (the character at position i is s[i + 1])                     *)

Whitespace == {" ", "\t", "\n"}

RECURSIVE LStrip(_)
LStrip(s) == IF s # <<>> /\ Head(s) \in Whitespace THEN LStrip(Tail(s)) ELSE s

RECURSIVE RStrip(_)
RStrip(s) ==
    IF s # <<>> /\ s[Len(s)] \in Whitespace
    THEN RStrip(SubSeq(s, 1, Len(s) - 1)) ELSE s

\* str.strip()
Strip(s) == RStrip(LStrip(s))

\* s.find(sub, start): the least position >= start where sub occurs, or -1
Find(s, sub, start) ==
    LET hits == { i \in start..(Len(s) - Len(sub)) :
                     SubSeq(s, i + 1, i + Len(sub)) = sub }
    IN  IF hits = {} THEN -1
        ELSE CHOOSE i \in hits : \A j \in hits : i <= j

\* s[a:b] for 0 <= a, b <= len(s)
Slice(s, a, b) == SubSeq(s, a + 1, b)

\* sep.join(parts)
RECURSIVE JoinWith(_, _)
JoinWith(parts, sep) ==
    IF parts = <<>> THEN <<>>
    ELSE IF Len(parts) = 1 THEN Head(parts)
    ELSE Head(parts) \o sep \o JoinWith(Tail(parts), sep)

\* A dict is the sequence of its <<key, value>> items in insertion order.
DictHas(d, k) == \E n \in 1..Len(d) : d[n][1] = k
DictGet(d, k) == d[CHOOSE n \in 1..Len(d) : d[n][1] = k][2]

\* d[k] = v
DictSet(d, k, v) ==
    IF DictHas(d, k)
    THEN [n \in 1..Len(d) |-> IF d[n][1] = k THEN <<k, v>> ELSE d[n]]
    ELSE Append(d, <<k, v>>)

-----------------------------------------------------------------------------
(* utilities/tools/parsers.py: cef_parser *)


\* The mutant binds name and severity the other way round.
CEFHeaderFieldSwapped ==
    <<"version", "device_vendor", "device_product", "device_version",
      "signature_id", "severity", "name">>

\* class CEFHeaderField, in declaration order
CEFHeaderField ==
    <<"version", "device_vendor", "device_product", "device_version",
      "signature_id", "name", "severity">>

\* current_key = None
NoKey == [none |-> TRUE, s |-> <<>>]

\* The test made on a space met while a value is accumulated: the lookahead
\* of _parse_cef_extension.
SpaceEndsValue(extension_str, i) ==
    LET next_equals == Find(extension_str, <<"=">>, i)
        next_space == Find(extension_str, <<" ">>, i + 1)
    IN  /\ next_equals # -1
        /\ (next_space = -1 \/ next_equals < next_space)
        /\ LET potential_key == Strip(Slice(extension_str, i + 1, next_equals))
           IN  /\ potential_key # <<>>
               /\ ~(HasChar(potential_key, " ") \/ HasChar(potential_key, "="))

\* The while loop of _parse_cef_extension from position st.i on.  ended and
\* kept record the positions of the spaces met in a value that ended it and
\* that were appended to it, dropped the positions of the escaped characters
\* that were appended to nothing.  The mutant's escape branch leaves
\* the position where it is.
ExtensionStepEscapeStuck(extension_str, st) ==
    IF extension_str[st.i + 1] = "\\" /\ st.i + 1 < Len(extension_str)
    THEN st
    ELSE [st EXCEPT !.i = @ + 1]

\* One iteration of the while loop, at position st.i < len(extension_str)
ExtensionStep(extension_str, st) ==
    LET char == extension_str[st.i + 1]
    IN  IF char = "\\" /\ st.i + 1 < Len(extension_str)
        THEN [st EXCEPT !.current_value =
                            IF st.in_value
                            THEN Append(@, extension_str[st.i + 2]) ELSE @,
                        !.dropped = IF st.in_value THEN @
                                    ELSE @ \cup {st.i + 1},
                        !.i = @ + 2]
        ELSE IF char = "=" /\ ~st.in_value
        THEN LET key_str == Strip(st.current_value)
             IN  IF key_str # <<>>
                 THEN [st EXCEPT !.current_key = [none |-> FALSE, s |-> key_str],
                                 !.current_value = <<>>,
                                 !.in_value = TRUE,
                                 !.i = @ + 1]
                 ELSE [st EXCEPT !.i = @ + 1]
        ELSE IF char = " " /\ st.in_value /\ SpaceEndsValue(extension_str, st.i)
        THEN [st EXCEPT !.extension =
                            IF ~st.current_key.none
                            THEN DictSet(@, st.current_key.s, st.current_value)
                            ELSE @,
                        !.current_key = NoKey,
                        !.current_value = <<>>,
                        !.in_value = FALSE,
                        !.ended = @ \cup {st.i},
                        !.i = @ + 1]
        ELSE [st EXCEPT !.current_value = Append(@, char),
                        !.kept = IF char = " " /\ st.in_value
                                 THEN @ \cup {st.i} ELSE @,
                        !.i = @ + 1]

RECURSIVE ExtensionLoop(_, _)
ExtensionLoop(extension_str, st) ==
    IF st.i >= Len(extension_str) THEN st
    ELSE ExtensionLoop(extension_str, ExtensionStep(extension_str, st))

\* The state the loop starts in
ExtensionStart ==
    [i |-> 0, current_key |-> NoKey, current_value |-> <<>>,
     in_value |-> FALSE, extension |-> <<>>,
     ended |-> {}, kept |-> {}, dropped |-> {}]

\* _parse_cef_extension(extension_str)
parse_cef_extension(extension_str) ==
    IF extension_str = <<>> \/ Strip(extension_str) = <<>>
    THEN [extension |-> <<>>, ended |-> {}, kept |-> {}, dropped |-> {},
          current_key |-> NoKey, current_value |-> <<>>]
    ELSE LET st == ExtensionLoop(extension_str, ExtensionStart)
         IN  [extension |->
                 IF ~st.current_key.none /\ st.current_value # <<>>
                 THEN DictSet(st.extension, st.current_key.s, st.current_value)
                 ELSE st.extension,
              ended |-> st.ended, kept |-> st.kept, dropped |-> st.dropped,
              current_key |-> st.current_key,
              current_value |-> st.current_value]

\* cef_parser(message_raw): the error raised, or the mapping returned
cef_parser(message_raw0) ==
    LET message_raw == Strip(message_raw0)
        cef_start == Find(message_raw, <<"C", "E", "F", ":">>, 0)
        cef_portion == Slice(message_raw, cef_start + 4, Len(message_raw))
        parts == SplitOn(cef_portion, "|")
        extension_str == IF Len(parts) > 7
                         THEN JoinWith(SubSeq(parts, 8, Len(parts)), <<"|">>)
                         ELSE <<>>
        ext == parse_cef_extension(extension_str)
    IN  IF message_raw = <<>>
        THEN [error |-> "Invalid input: message_raw must be a non-empty string"]
        ELSE IF cef_start = -1
        THEN [error |-> "Invalid CEF format: 'CEF:' marker not found"]
        ELSE IF Len(parts) < 7
        THEN [error |-> "Invalid CEF header: expected at least 7 pipe-delimited fields",
              got |-> Len(parts)]
        ELSE IF Len(parts) > 8
        THEN [error |-> "Invalid CEF format: too many pipes in header",
              got |-> Len(parts)]
        ELSE [error |-> "none",
              result |->
                 [syslog_prefix |-> Strip(Slice(message_raw, 0, cef_start)),
                  cef_header |-> [n \in 1..7 |-> <<CEFHeaderField[n], parts[n]>>],
                  extension |-> ext.extension],
              extension_str |-> extension_str,
              ended |-> ext.ended, kept |-> ext.kept, dropped |-> ext.dropped,
              current_key |-> ext.current_key,
              current_value |-> ext.current_value]

\* The tool call cef_parser(message_raw)
CefParser(message_raw) ==
    /\ io = Idle
    /\ io' = [op |-> "cef_parser", message_raw |-> message_raw,
              out |-> cef_parser(message_raw)]
    /\ UNCHANGED <<fsVars, regVars, pa, cmd>>


\* Inputs of cef_parser.  Header segments, then extension segments.
CefSegments ==
    <<<<"0">>, <<"F", "o", "r", "t", "i", "n", "e", "t">>, <<"F", "o", "r", "t", "i", " ", "g", "a", "t", "e">>, <<"v", "7", ".", "0">>, <<>>, <<"t", "r", "a", "f", "f", "i", "c", ":", "f", "o", "r", "w", "a", "r", "d", " ", "a", "c", "c", "e", "p", "t">>,
      <<"3">>, <<"s", "r", "c", "=", "1", "0", ".", "1", ".", "1", ".", "1", " ", "d", "s", "t", "=", "8", ".", "8", ".", "8", ".", "8">>, <<"e", "x", "t", "r", "a">>, <<"d", "a", "t", "a">>>>

CefMarker == <<"C", "E", "F", ":">>

\* 'CEF:' followed by the first k segments, joined with '|'
CefWithSegments(k) == CefMarker \o JoinWith(SubSeq(CefSegments, 1, k), <<"|">>)

SyslogPrefixes == { <<>>, <<"<", "1", "8", "9", ">", "S", "e", "p", " ", "2", "1", " ", "0", "5", ":", "4", "4", ":", "4", "2", " ", "H", "o", "s", "t", " ">> }
Trailers == { <<>>, <<"\n">>, <<" ", " ">> }

HeaderMessages ==
    { pre \o CefWithSegments(k) \o tr :
         pre \in SyslogPrefixes, k \in 1..10, tr \in Trailers }
    \cup { <<>>, <<" ", " ", " ">>, <<"<", "1", "8", "9", ">", "S", "e", "p", " ", "2", "1", " ", "0", "5", ":", "4", "4", ":", "4", "2", " ", "H", "o", "s", "t", " ", "S", "o", "m", "e", " ", "l", "o", "g", " ", "m", "e", "s", "s", "a", "g", "e">>,
           <<"C", "E", "F", ":", "|", "|", "|", "|", "|", "|">>, <<"C", "E", "F", ":", "0", "|", "V", "|", "P", "|", "1", "|", "1", "|", "E", "|", "C", "E", "F", ":", "1", "|">>,
           <<"<", "1", "8", "9", ">", "H", "o", "s", "t", " ", "C", "E", "F", ":", "0", "|", "V", "|", "P", "|", "1", "|", "1", "|", "E", "|", "1", "|">>,
           <<"<", "1", "8", "9", ">", "H", "o", "s", "t", " ", "C", "E", "F", ":", "0", "|", "V", "|", "P", "|", "1", "|", "1", "|", "E", "|", "1", "|", "e", "x", "t", "r", "a", "|", "d", "a", "t", "a", "|", "s", "r", "c", "=", "1", ".", "1", ".", "1", ".", "1">> }

\* The header the extension inputs are appended to
StdHeader == <<"<", "1", "8", "9", ">", "H", "o", "s", "t", " ", "C", "E", "F", ":", "0", "|", "V", "|", "P", "|", "1", "|", "1", "|", "E", "|", "1", "|">>

ExtAlphabet == {"a", " ", "=", "\\"}

\* Every string over ExtAlphabet of at most MaxExtLen characters
ExtStrings == UNION { [1..n -> ExtAlphabet] : n \in 0..MaxExtLen }

\* Extensions of the form k1=v1 k2=v2 ..., values of one or several words
ExtKeys == { <<"m", "s", "g">>, <<"t", "e", "s", "t">>, <<"f", "r", "o", "m">> }
ExtValues == { <<"v", "a", "l", "u", "e">>, <<"H", "e", "l", "l", "o", " ", "W", "o", "r", "l", "d">>, <<"U", "s", "e", "r", " ", "l", "o", "g", "g", "e", "d", " ", "i", "n", " ", "s", "u", "c", "c", "e", "s", "s", "f", "u", "l", "l", "y">>,
               <<"a", " ", " ", "b">> }

ExtPairLists ==
    { <<p>> : p \in ExtKeys \X ExtValues }
    \cup { <<p, q>> : p \in {<<"m", "s", "g">>} \X ExtValues,
                      q \in {<<"t", "e", "s", "t">>, <<"f", "r", "o", "m">>} \X ExtValues }
    \cup { <<<<<<"s", "p", "t">>, <<"4", "4", "3">>>>, <<<<"d", "p", "t">>, <<"8", "0">>>>, <<<<"c", "n", "t">>, <<"1", "0", "0">>>>>>,
           <<<<<<"F", "T", "N", "T", "F", "G", "T", "s", "r", "c">>, <<"1", "0", ".", "1", ".", "1", ".", "1">>>>, <<<<"F", "T", "N", "T", "F", "G", "T", "d", "s", "t">>, <<"8", ".", "8", ".", "8", ".", "8">>>>>> }

\* k1=v1 k2=v2 ...
RenderPairs(pairs) ==
    JoinWith([n \in 1..Len(pairs) |-> pairs[n][1] \o <<"=">> \o pairs[n][2]],
             <<" ">>)

CefMessages ==
    HeaderMessages
    \cup { StdHeader \o e : e \in ExtStrings }
    \cup { StdHeader \o RenderPairs(ps) : ps \in ExtPairLists }



-----------------------------------------------------------------------------
(* utilities/tools/parsers.py: syslog_kv_parser *)

PrefixKey == <<"p", "r", "e", "f", "i", "x">>

\* _extract_syslog_prefix(message_raw)
extract_syslog_prefix(message_raw) ==
    LET prefix_end == Find(message_raw, <<">">>, 0)
        kv_portion == Strip(Slice(message_raw, prefix_end + 1, Len(message_raw)))
    IN  IF ~StartsWith(message_raw, <<"<">>)
        THEN [error |-> "Invalid format: message must start with syslog priority prefix <PRI>"]
        ELSE IF prefix_end = -1
        THEN [error |-> "Invalid format: missing closing '>' in syslog priority prefix"]
        ELSE IF kv_portion = <<>>
        THEN [error |-> "No key-value pairs found after priority prefix"]
        ELSE [error |-> "none",
              prefix |-> Slice(message_raw, 0, prefix_end + 1),
              kv_portion |-> kv_portion]

\* _parse_kv_key(kv_portion, index)
parse_kv_key(kv_portion, key_start) ==
    LET index == Find(kv_portion, <<"=">>, key_start)
        key == Strip(Slice(kv_portion, key_start, index))
    IN  IF index = -1
        THEN [error |-> "Invalid key-value pair: no '=' found for key"]
        ELSE IF key = <<>>
        THEN [error |-> "Invalid key-value pair: empty key"]
        ELSE [error |-> "none", key |-> key, index |-> index + 1]

\* The scanning loop of _parse_quoted_value: the position of the closing
\* quote, or len(kv_portion)
RECURSIVE QuoteScan(_, _)
QuoteScan(kv_portion, index) ==
    IF index < Len(kv_portion) /\ kv_portion[index + 1] # "\""
    THEN IF kv_portion[index + 1] = "\\" /\ index + 1 < Len(kv_portion)
         THEN QuoteScan(kv_portion, index + 2)
         ELSE QuoteScan(kv_portion, index + 1)
    ELSE index

\* _parse_quoted_value(kv_portion, index, key)
parse_quoted_value(kv_portion, index0) ==
    LET value_start == index0 + 1
        index == QuoteScan(kv_portion, value_start)
    IN  IF index >= Len(kv_portion)
        THEN [error |-> "Invalid key-value pair: unclosed quote for key"]
        ELSE [error |-> "none", value |-> Slice(kv_portion, value_start, index),
              index |-> index + 1]

\* The mutant returns the empty value.
EmptyValueAccepted(value) == FALSE

\* not value
EmptyValue(value) == value = <<>>

\* _parse_unquoted_value(kv_portion, index, key)
parse_unquoted_value(kv_portion, value_start) ==
    LET next_space == Find(kv_portion, <<" ">>, value_start)
        index == IF next_space = -1 THEN Len(kv_portion) ELSE next_space
        value == Slice(kv_portion, value_start, index)
    IN  IF EmptyValue(value)
        THEN [error |-> "Invalid key-value pair: empty value for key"]
        ELSE [error |-> "none", value |-> value, index |-> index]

\* _parse_kv_value(kv_portion, index, key)
parse_kv_value(kv_portion, index) ==
    IF index >= Len(kv_portion)
    THEN [error |-> "Invalid key-value pair: no value for key"]
    ELSE IF kv_portion[index + 1] = "\""
    THEN parse_quoted_value(kv_portion, index)
    ELSE parse_unquoted_value(kv_portion, index)

\* The inner loop that skips the spaces between pairs
RECURSIVE SkipSpaces(_, _)
SkipSpaces(kv_portion, index) ==
    IF index < Len(kv_portion) /\ kv_portion[index + 1] = " "
    THEN SkipSpaces(kv_portion, index + 1)
    ELSE index

\* One iteration of the while loop of syslog_kv_parser, at position
\* index0 < len(kv_portion): the spaces are skipped, then the loop breaks,
\* or a pair is read and stored, or the read raises.
KvStep(kv_portion, index0, result) ==
    LET index == SkipSpaces(kv_portion, index0)
    IN  IF index >= Len(kv_portion)
        THEN [error |-> "none", broke |-> TRUE, index |-> index,
              result |-> result, raised |-> [error |-> "none"]]
        ELSE LET k == parse_kv_key(kv_portion, index)
             IN  IF k.error # "none"
                 THEN [error |-> k.error, broke |-> FALSE, index |-> index,
                       result |-> result, raised |-> [error |-> k.error]]
                 ELSE LET v == parse_kv_value(kv_portion, k.index)
                      IN  IF v.error # "none"
                          THEN [error |-> v.error, broke |-> FALSE,
                                index |-> k.index, result |-> result,
                                raised |-> [error |-> v.error, key |-> k.key]]
                          ELSE [error |-> "none", broke |-> FALSE,
                                index |-> v.index,
                                result |-> DictSet(result, k.key, v.value),
                                raised |-> [error |-> "none"]]

\* The while loop of syslog_kv_parser from position index0 on
RECURSIVE KvLoop(_, _, _)
KvLoop(kv_portion, index0, result) ==
    IF index0 >= Len(kv_portion) THEN [error |-> "none", result |-> result]
    ELSE LET step == KvStep(kv_portion, index0, result)
         IN  IF step.error # "none" THEN step.raised
             ELSE IF step.broke THEN [error |-> "none", result |-> result]
             ELSE KvLoop(kv_portion, step.index, step.result)

\* syslog_kv_parser(message_raw): the error raised, or the mapping returned
syslog_kv_parser(message_raw0) ==
    LET message_raw == Strip(message_raw0)
        p == extract_syslog_prefix(message_raw)
    IN  IF message_raw = <<>>
        THEN [error |-> "Invalid input: message_raw must be a non-empty string"]
        ELSE IF p.error # "none" THEN [error |-> p.error]
        ELSE KvLoop(p.kv_portion, 0, << <<PrefixKey, p.prefix>> >>)

\* The tool call syslog_kv_parser(message_raw)
SyslogKvParser(message_raw) ==
    /\ io = Idle
    /\ io' = [op |-> "syslog_kv_parser", message_raw |-> message_raw,
              out |-> syslog_kv_parser(message_raw)]
    /\ UNCHANGED <<fsVars, regVars, pa, cmd>>

\* Inputs of syslog_kv_parser
KvAlphabet == {"a", "=", " ", "\"", "\\"}

\* Every string over KvAlphabet of at most MaxKvLen characters
KvStrings == UNION { [1..n -> KvAlphabet] : n \in 0..MaxKvLen }

StdPri == <<"<", "1", "8", "9", ">">>

PriPool == { StdPri, <<"<", "1", ">">>, <<"<", ">">>, <<"<", "a", "b", "c", ">">>, <<"<", "1", "8", "9">>, <<>>, <<" ", " ", "<", "1", "8", "9", ">">>,
             <<"1", "8", "9", ">">> }

KvKeys == { <<"d", "a", "t", "e">>, <<"m", "s", "g">>, PrefixKey }

\* Values: an unquoted run of non-space characters, or a quoted span
KvValues ==
    { [quoted |-> FALSE, s |-> v] : v \in { <<"1", "7", "5", "8", "4", "1", "3", "6", "6", "8", "3", "8", "1", "6", "0", "1", "5", "4", "0">>, <<"a", "=", "b">> } }
    \cup { [quoted |-> TRUE, s |-> v] :
              v \in { <<>>, <<"l", "o", "g", "i", "n", " ", "s", "u", "c", "c", "e", "s", "s">>, <<"x", "=", "y", " ", "z">> } }

KvPair == [key : KvKeys, value : KvValues]

\* One or two pairs, the keys distinct
KvPairLists ==
    { <<p>> : p \in KvPair }
    \cup { ps \in KvPair \X KvPair : ps[1].key # ps[2].key }

KvSeparators == { <<" ">>, <<" ", " ", " ", " ">> }

RenderValue(v) == IF v.quoted THEN <<"\"">> \o v.s \o <<"\"">> ELSE v.s

\* <PRI>k1=v1 k2="v2" ...
RenderSyslog(pri, pairs, sep) ==
    pri \o JoinWith([n \in 1..Len(pairs) |->
                        pairs[n].key \o <<"=">> \o RenderValue(pairs[n].value)],
                    sep)

\* Pairs that end the parse with an error, each after well-formed pairs
KvLeads == { <<>>, <<"k", "=", "v", " ">>, <<"k", "=", "\"", "a", " ", "b", "\"", " ", " ">> }
EmptyKeyPairs == { <<"=", "v">>, <<" ", "=", "v">>, <<"=", "\"", "a", " ", "b", "\"">> }
EmptyValuePairs == { <<"m", "=", " ", "n", "=", "1">>, <<"m", "=", " ", " ">> \o <<"n", "=", "1">> }
UnclosedQuotePairs == { <<"m", "=", "\"", "a", "b", "c">>, <<"m", "=", "\"", "a", " ", "b", "=", "c", " ", "d">>, <<"m", "=", "\"", "a", "\\", "\"">>, <<"m", "=", "\"">> }
KvBadPairs ==
    EmptyKeyPairs \cup EmptyValuePairs \cup UnclosedQuotePairs
    \cup { <<"m", "=">>, <<"m">>, <<"m", " ", "n">> }

SyslogMessages ==
    { StdPri \o e : e \in KvStrings }
    \cup { pri \o kv \o tr : pri \in PriPool, kv \in { <<>>, <<"k", "e", "y", "=", "v", "a", "l", "u", "e">>, <<" ", " ">> },
                            tr \in { <<>>, <<" ", " ">> } }
    \cup { RenderSyslog(StdPri, ps, sep) : ps \in KvPairLists, sep \in KvSeparators }
    \cup { StdPri \o lead \o bad : lead \in KvLeads, bad \in KvBadPairs }
    \cup { <<>>, <<" ", " ", " ">>, <<"d", "a", "t", "e", "=", "2", "0", "2", "5", "-", "0", "9", "-", "2", "1", " ", "t", "i", "m", "e", "=", "0", "5", ":", "4", "4", ":", "2", "8">>,
           <<"<", "1", "8", "9", ">", "k", "e", "y", "1", "=", " ", "k", "e", "y", "2", "=", "v", "a", "l", "u", "e", "2">>,
           <<"<", "1", "8", "9", ">", "f", "i", "e", "l", "d", "1", "=", "v", "a", "l", "u", "e", "1", " ", "f", "i", "e", "l", "d", "2", "=", "\"", "\"", " ", "f", "i", "e", "l", "d", "3", "=", "v", "a", "l", "u", "e", "3">> }

-----------------------------------------------------------------------------
(* The parsers as tools: each call takes one message *)

InitParse ==
    /\ symlinks = NoLinks
    /\ cwd = PROJECT_ROOT
    /\ pa = NoCall
    /\ cmd = NoCommand
    /\ InitRest

NextParse ==
    \/ \E message_raw \in CefMessages : CefParser(message_raw)
    \/ \E message_raw \in SyslogMessages : SyslogKvParser(message_raw)
    \/ ToolReturn

SpecParse == InitParse /\ [][NextParse]_vars

-----------------------------------------------------------------------------
(* C12: the CEF header *)

CefDone == io.op = "cef_parser"

HasMarker(message) == Find(message, CefMarker, 0) # -1

\* The segments obtained by splitting on '|' what follows the first 'CEF:'
SegmentsAfterMarker(message) ==
    SplitOn(Slice(message, Find(message, CefMarker, 0) + 4, Len(message)), "|")

\* The outcome the claim gives for these segments
HeaderRule(out, segs) ==
    LET k == Len(segs)
    IN  /\ k < 7 =>
              out.error = "Invalid CEF header: expected at least 7 pipe-delimited fields"
        /\ k > 8 => out.error = "Invalid CEF format: too many pipes in header"
        /\ k \in {7, 8} =>
              /\ out.error = "none"
              /\ Len(out.result.cef_header) = 7
              /\ \A n \in 1..7 :
                    out.result.cef_header[n] =
                       << <<"version", "device_vendor", "device_product",
                            "device_version", "signature_id", "name",
                            "severity">>[n], segs[n] >>

\* C12 as stated: with k the number of segments of the text that follows the
\* first 'CEF:' of the message, k < 7 fails with 'expected at least 7
\* pipe-delimited fields', k > 8 fails with 'too many pipes', and k = 7 or 8
\* returns a header binding the seven field names, in order, to segments 1
\* to 7 verbatim.
C12_HeaderFromSegmentsOfMessage ==
    (CefDone /\ HasMarker(io.message_raw)) =>
        HeaderRule(io.out, SegmentsAfterMarker(io.message_raw))

\* C12: the same rule with the segments taken from the message after its
\* leading and trailing whitespace is removed (with 7 segments the seventh
\* loses the whitespace that ends the message), whatever the extension is.
C12_HeaderFromSegmentsOfTrimmedMessage ==
    (CefDone /\ HasMarker(io.message_raw)) =>
        HeaderRule(io.out, SegmentsAfterMarker(Strip(io.message_raw)))

\* A message of 7 segments ending with a newline was parsed: severity is the
\* seventh segment without the newline.
C12_Witness ==
    /\ CefDone
    /\ io.message_raw = CefWithSegments(7) \o <<"\n">>
    /\ io.out.error = "none"
    /\ io.out.result.cef_header[7] = <<"severity", <<"3">>>>
    /\ io.out.result.extension = <<>>

-----------------------------------------------------------------------------
(* C13: the lookahead of the extension tokenizer *)

\* The positions consumed as the second character of a backslash escape
RECURSIVE EscapedFrom(_, _)
EscapedFrom(s, i) ==
    IF i >= Len(s) THEN {}
    ELSE IF s[i + 1] = "\\" /\ i + 1 < Len(s)
         THEN {i + 1} \cup EscapedFrom(s, i + 2)
         ELSE EscapedFrom(s, i + 1)

\* The lookahead as the claim states it: an unescaped '=' follows the space
\* at position i, and the text between the two is non-empty and holds no
\* space and no '='.
UnescapedEqualsAhead(s, i) ==
    \E j \in (i + 2)..(Len(s) - 1) :
        /\ s[j + 1] = "="
        /\ j \notin EscapedFrom(s, 0)
        /\ \A m \in (i + 1)..(j - 1) : s[m + 1] \notin {" ", "="}

\* C13: a space met while a value is accumulated ends the value if and only
\* if an unescaped '=' follows before the next space, the text in between
\* being non-empty and free of spaces and of '='; otherwise the space stays
\* in the value.  'msg=Hello World test=value' gives msg 'Hello World' and
\* test 'value', and an extension k1=v1 k2=v2 ... with multi-word values
\* maps each key to its full value.
C13_SpaceEndsValueIffUnescapedEqualsAhead ==
    (CefDone /\ io.out.error = "none") =>
        /\ \A i \in io.out.ended \cup io.out.kept :
              (i \in io.out.ended) <=>
                  UnescapedEqualsAhead(io.out.extension_str, i)
        /\ io.message_raw = StdHeader \o <<"m", "s", "g", "=", "H", "e", "l", "l", "o", " ", "W", "o", "r", "l", "d", " ", "t", "e", "s", "t", "=", "v", "a", "l", "u", "e">> =>
              io.out.result.extension =
                 << <<<<"m", "s", "g">>, <<"H", "e", "l", "l", "o", " ", "W", "o", "r", "l", "d">>>>, <<<<"t", "e", "s", "t">>, <<"v", "a", "l", "u", "e">>>> >>
        /\ \A ps \in ExtPairLists :
              io.message_raw = StdHeader \o RenderPairs(ps) =>
                 io.out.result.extension = ps

-----------------------------------------------------------------------------
(* C22, C23: escapes and the end of input in the extension tokenizer *)

\* C22: a backslash followed by a character consumes both and puts the
\* escaped character into the text being accumulated, whether a key is
\* sought or a value accumulated: no escaped character is dropped, and an
\* escaped '=' or space is never the delimiter that ends a key or a value.
C22_EscapedCharacterKept ==
    (CefDone /\ io.out.error = "none") =>
        /\ io.out.dropped = {}
        /\ io.out.ended \cap EscapedFrom(io.out.extension_str, 0) = {}

\* C23: at the end of the input a pair in progress (its key read and its
\* '=' consumed) is in the mapping with the value accumulated so far, an
\* empty value included.
C23_PairInProgressFlushed ==
    (CefDone /\ io.out.error = "none" /\ ~io.out.current_key.none) =>
        /\ DictHas(io.out.result.extension, io.out.current_key.s)
        /\ DictGet(io.out.result.extension, io.out.current_key.s)
              = io.out.current_value

-----------------------------------------------------------------------------
(* C24: the extension string *)

\* What follows the 7th pipe after the marker, pipes included
RemainderAfterSeventhPipe(message) ==
    LET segs == SegmentsAfterMarker(message)
    IN  JoinWith(SubSeq(segs, 8, Len(segs)), <<"|">>)

\* C24: the extension string handed to the tokenizer is the whole remainder
\* of the message after the 7th pipe; a remainder that holds pipes is put
\* together again with '|', so that its pipes are in the parsed result.
C24_ExtensionIsWholeRemainder ==
    LET message == Strip(io.message_raw)
    IN  (CefDone /\ HasMarker(message) /\ Len(SegmentsAfterMarker(message)) >= 8)
            => /\ io.out.error = "none"
               /\ io.out.extension_str = RemainderAfterSeventhPipe(message)


-----------------------------------------------------------------------------
(* C14, C15, C16: syslog_kv_parser *)

SyslogDone == io.op = "syslog_kv_parser"

\* C14: for an input <PRI>k1=v1 k2=v2 ... with distinct keys, one or more
\* spaces between the pairs, each value an unquoted run of non-space
\* characters or a quoted span, the parser returns 'prefix' plus exactly one
\* entry per pair, each value the run or the text between the quotes
\* verbatim ('=' and spaces included), an empty quoted value being kept as
\* the empty string.
C14_OneEntryPerPair ==
    SyslogDone =>
        \A ps \in KvPairLists, sep \in KvSeparators :
            io.message_raw = RenderSyslog(StdPri, ps, sep) =>
                /\ io.out.error = "none"
                /\ Len(io.out.result) = 1 + Len(ps)
                /\ DictHas(io.out.result, PrefixKey)
                /\ \A n \in 1..Len(ps) :
                      /\ DictHas(io.out.result, ps[n].key)
                      /\ DictGet(io.out.result, ps[n].key) = ps[n].value.s

\* '<', one or more digits, '>'
IsPriorityToken(p) ==
    /\ Len(p) >= 3
    /\ p[1] = "<" /\ p[Len(p)] = ">"
    /\ \A n \in 2..(Len(p) - 1) : p[n] \in Digits

\* C15: every mapping returned holds 'prefix', and its value is a priority
\* token '<' digits '>', the start of the (trimmed) input up to and
\* including the closing '>'.
C15_PrefixIsPriorityToken ==
    (SyslogDone /\ io.out.error = "none") =>
        /\ DictHas(io.out.result, PrefixKey)
        /\ LET prefix == DictGet(io.out.result, PrefixKey)
               message == Strip(io.message_raw)
           IN  /\ IsPriorityToken(prefix)
               /\ prefix = Slice(message, 0, Find(message, <<">">>, 0) + 1)

\* The first pair of a key-value portion: the text before the first '=' and
\* the position of what follows it.
FirstKey(kv) == Strip(Slice(kv, 0, Find(kv, <<"=">>, 0)))
AfterFirstEquals(kv) == Find(kv, <<"=">>, 0) + 1

-----------------------------------------------------------------------------
(* utilities/tools/schema_validation.py and                                *)
(* logs_analysis_agent/schema_models.py                                     *)
(*                                                                         *)
(* A decoded JSON value is a record: t is its JSON type, n the number (a   *)
(* float in tenths, a bool as 0 or 1), s the string.  An object carries    *)
(* its members in a field of its own.  A text is either undecodable or the *)
(* encoding of such a value.                                                *)

JInt(n) == [t |-> "int", n |-> n, s |-> ""]
JFloat(tenths) == [t |-> "float", n |-> tenths, s |-> ""]
JStr(s) == [t |-> "str", n |-> 0, s |-> s]
JBool(b) == [t |-> "bool", n |-> IF b THEN 1 ELSE 0, s |-> ""]
JNull == [t |-> "null", n |-> 0, s |-> ""]
JList == [t |-> "list", n |-> 0, s |-> ""]

\* A JSON object with members 'fields' (a function from names to values)
JObject(fields) == [t |-> "object", n |-> 0, s |-> "", fields |-> fields]

\* The log_types object: a sequence of log type payloads, keyed 1, 2, ...
JLogTypes(log_types) == [t |-> "object", n |-> 0, s |-> "", log_types |-> log_types]

\* pydantic's conversion of numeric strings, in tenths
NumericStrings ==
    [s \in {"0", "1", "100", "0.5", "1.5"} |->
        CASE s = "0" -> 0 [] s = "1" -> 10 [] s = "100" -> 1000
          [] s = "0.5" -> 5 [] s = "1.5" -> 15]
IntStrings == {"0", "1", "100"}
TrueStrings == {"true", "1", "yes", "on", "t", "y"}
FalseStrings == {"false", "0", "no", "off", "f", "n"}

\* The value of a field after pydantic's (lax) validation of its type, in
\* tenths for numbers; ok tells whether the input is accepted.
Invalid == [ok |-> FALSE, n |-> 0]
Valid(n) == [ok |-> TRUE, n |-> n]

\* int: an int, a bool, a float without fraction, a string of digits
validate_int(v) ==
    CASE v.t \in {"int", "bool"} -> Valid(v.n * 10)
      [] v.t = "float" -> IF v.n % 10 = 0 THEN Valid(v.n) ELSE Invalid
      [] v.t = "str" -> IF v.s \in IntStrings
                        THEN Valid(NumericStrings[v.s]) ELSE Invalid
      [] OTHER -> Invalid

\* float: an int, a bool, a float, a numeric string
validate_float(v) ==
    CASE v.t \in {"int", "bool"} -> Valid(v.n * 10)
      [] v.t = "float" -> Valid(v.n)
      [] v.t = "str" -> IF v.s \in DOMAIN NumericStrings
                        THEN Valid(NumericStrings[v.s]) ELSE Invalid
      [] OTHER -> Invalid

\* str: a string only
validate_str(v) == IF v.t = "str" THEN Valid(0) ELSE Invalid

\* bool: a bool, the ints 0 and 1, the floats 0.0 and 1.0, the strings
\* 'true', 'false' and their like
validate_bool(v) ==
    CASE v.t = "bool" -> Valid(v.n)
      [] v.t = "int" -> IF v.n \in {0, 1} THEN Valid(v.n) ELSE Invalid
      [] v.t = "float" -> IF v.n \in {0, 10} THEN Valid(v.n \div 10) ELSE Invalid
      [] v.t = "str" -> IF v.s \in TrueStrings THEN Valid(1)
                        ELSE IF v.s \in FalseStrings THEN Valid(0) ELSE Invalid
      [] OTHER -> Invalid

\* class ParsedFieldMetadata: field_path and parsers_or_formats are required,
\* parent_parsed_field is an optional str, parse_level an int; the class has
\* no validator that relates entries to one another.
ParsedFieldMetadata_validate(entry) ==
    /\ validate_str(entry.field_path).ok
    /\ entry.parsers_or_formats_given
    /\ entry.parent_parsed_field.t = "null"
          \/ validate_str(entry.parent_parsed_field).ok
    /\ validate_int(entry.parse_level).ok

\* class LogType: name, primary_use, count_in_dataset (>= 0),
\* identification_rules and schema are required; parsing_metadata is a list
\* of ParsedFieldMetadata.
LogType_validate(log_type) ==
    /\ log_type.name_given
    /\ validate_int(log_type.count_in_dataset).ok
    /\ validate_int(log_type.count_in_dataset).n >= 0
    /\ \A k \in 1..Len(log_type.parsing_metadata) :
          ParsedFieldMetadata_validate(log_type.parsing_metadata[k])

\* The mutant gives analysis_notes a default.
RequiredFieldsButNotes ==
    {"index_name", "total_logs_analyzed", "analysis_batches_processed",
     "log_types", "analysis_confidence", "stopping_reason",
     "requires_human_review", "processing_time_minutes"}

\* class SchemaDocument: the fields declared with '...' or without a default
RequiredFields ==
    {"index_name", "total_logs_analyzed", "analysis_batches_processed",
     "log_types", "analysis_confidence", "stopping_reason",
     "requires_human_review", "analysis_notes", "processing_time_minutes"}

\* Validation of one field of SchemaDocument, with its ge / le bounds
SchemaDocument_field(name, v) ==
    CASE name \in {"index_name", "stopping_reason", "analysis_notes"} ->
            validate_str(v).ok
      [] name \in {"total_logs_analyzed", "analysis_batches_processed"} ->
            validate_int(v).ok /\ validate_int(v).n >= 0
      [] name = "analysis_confidence" ->
            validate_float(v).ok /\ validate_float(v).n >= 0
               /\ validate_float(v).n <= 10
      [] name = "processing_time_minutes" ->
            validate_float(v).ok /\ validate_float(v).n >= 0
      [] name = "requires_human_review" -> validate_bool(v).ok
      [] name = "data_quality_issues" -> v.t = "list"
      [] name = "log_types" ->
            /\ v.t = "object"
            /\ \A k \in 1..Len(v.log_types) : LogType_validate(v.log_types[k])
      [] OTHER -> TRUE    \* a field the model does not declare is ignored

\* SchemaDocument.model_validate(payload)
model_validate(payload) ==
    /\ payload.t = "object"
    /\ RequiredFields \subseteq DOMAIN payload.fields
    /\ \A name \in DOMAIN payload.fields :
          SchemaDocument_field(name, payload.fields[name])

\* parse_and_validate_schema_document(text)
parse_and_validate_schema_document(text) ==
    IF ~text.decodable
    THEN [error |-> "Model output is not valid JSON"]
    ELSE IF ~model_validate(text.payload)
    THEN [error |-> "Model output failed SchemaDocument validation"]
    ELSE [error |-> "none", result |-> "SchemaDocument"]

\* The tool call parse_and_validate_schema_document(text)
ParseAndValidateSchemaDocument(text) ==
    /\ io = Idle
    /\ io' = [op |-> "parse_and_validate_schema_document", text |-> text,
              out |-> parse_and_validate_schema_document(text)]
    /\ UNCHANGED <<fsVars, regVars, pa, cmd>>


\* Inputs of parse_and_validate_schema_document
Undecodable(src) == [decodable |-> FALSE, src |-> src, payload |-> JNull]
Encoded(payload) == [decodable |-> TRUE, src |-> "", payload |-> payload]

\* The document of test_parse_missing_required_field_scenarios
BaseFields ==
    [name \in RequiredFields \cup {"wrong_field"} |->
        CASE name = "index_name" -> JStr("test_index")
          [] name = "total_logs_analyzed" -> JInt(100)
          [] name = "analysis_batches_processed" -> JInt(2)
          [] name = "log_types" -> JLogTypes(<<>>)
          [] name = "analysis_confidence" -> JFloat(9)
          [] name = "stopping_reason" -> JStr("no-new-fields")
          [] name = "requires_human_review" -> JBool(FALSE)
          [] name = "analysis_notes" -> JStr("Test notes")
          [] name = "processing_time_minutes" -> JFloat(15)
          [] name = "wrong_field" -> JStr("should_be_ignored")]

\* The document of test_parse_valid_minimal_schema
MinimalFields ==
    [name \in RequiredFields |->
        CASE name = "index_name" -> JStr("minimal")
          [] name = "total_logs_analyzed" -> JInt(0)
          [] name = "analysis_batches_processed" -> JInt(0)
          [] name = "log_types" -> JLogTypes(<<>>)
          [] name = "analysis_confidence" -> JFloat(10)
          [] name = "stopping_reason" -> JStr("no-data")
          [] name = "requires_human_review" -> JBool(FALSE)
          [] name = "analysis_notes" -> JStr("No logs found")
          [] name = "processing_time_minutes" -> JFloat(1)]

ScalarPool ==
    { JNull, JList, JStr("abc"), JStr("100"), JStr("0.5"), JStr("true"),
      JInt(-1), JInt(0), JInt(1), JInt(100), JFloat(9), JFloat(15), JFloat(20),
      JBool(TRUE), JBool(FALSE) }

FieldNames == RequiredFields \cup {"data_quality_issues", "wrong_field"}

\* An edit of a document: a member removed, or set to a value of the pool
Edits ==
    [name : FieldNames, remove : {TRUE}, v : {JNull}]
    \cup [name : FieldNames, remove : {FALSE}, v : ScalarPool]

ApplyEdit(fields, e) ==
    IF e.remove THEN Drop(fields, e.name) ELSE Put(fields, e.name, e.v)

\* parsing_metadata entries and log types
FieldPaths == {"message_raw", "message_raw.extension.payload"}

MetadataEntries ==
    { [field_path |-> JStr(p), parsers_or_formats_given |-> TRUE,
       parent_parsed_field |-> parent, parse_level |-> JInt(level)] :
         p \in FieldPaths, parent \in {JNull} \cup {JStr(q) : q \in FieldPaths},
         level \in 0..MaxParseLevel }

MetadataLists == UNION { [1..n -> MetadataEntries] : n \in 0..MaxMetadata }

LogTypes ==
    { [name_given |-> TRUE, count_in_dataset |-> JInt(50),
       parsing_metadata |-> meta] : meta \in MetadataLists }
    \cup { [name_given |-> FALSE, count_in_dataset |-> JInt(50),
            parsing_metadata |-> <<>>],
           [name_given |-> TRUE, count_in_dataset |-> JInt(-1),
            parsing_metadata |-> <<>>],
           [name_given |-> TRUE, count_in_dataset |-> JInt(50),
            parsing_metadata |->
               << [field_path |-> JStr("message_raw"),
                   parsers_or_formats_given |-> FALSE,
                   parent_parsed_field |-> JNull, parse_level |-> JInt(0)] >>],
           [name_given |-> TRUE, count_in_dataset |-> JInt(50),
            parsing_metadata |->
               << [field_path |-> JStr("message_raw"),
                   parsers_or_formats_given |-> TRUE,
                   parent_parsed_field |-> JNull, parse_level |-> JStr("abc")] >>] }

DocumentFields ==
    { BaseFields, MinimalFields }
    \cup { ApplyEdit(BaseFields, e) : e \in Edits }
    \cup { ApplyEdit(ApplyEdit(BaseFields, e1), e2) :
              e1 \in Edits, e2 \in { e \in Edits : e.remove } }
    \cup { Put(BaseFields, "log_types", JLogTypes(<<lt>>)) : lt \in LogTypes }
    \cup { [name \in {"wrong_field"} |-> JStr("value")],
           [name \in {"index_name"} |-> JStr("test")] }

SchemaTexts ==
    { Undecodable("{\"invalid\": json}"), Undecodable(""),
      Undecodable("{'key': 'value'}") }
    \cup { Encoded(p) : p \in {JList, JNull, JInt(1), JStr("abc")} }
    \cup { Encoded(JObject(f)) : f \in DocumentFields }

InitSchema ==
    /\ symlinks = NoLinks
    /\ cwd = PROJECT_ROOT
    /\ pa = NoCall
    /\ cmd = NoCommand
    /\ InitRest

NextSchema ==
    \/ \E text \in SchemaTexts : ParseAndValidateSchemaDocument(text)
    \/ ToolReturn

SpecSchema == InitSchema /\ [][NextSchema]_vars


-----------------------------------------------------------------------------
(* C17, C18: the schema validator *)

SchemaDone == io.op = "parse_and_validate_schema_document"
SchemaAccepted == SchemaDone /\ io.out.error = "none"

\* The required top-level fields the claim names
ClaimedRequired ==
    {"index_name", "total_logs_analyzed", "analysis_batches_processed",
     "log_types", "analysis_confidence", "stopping_reason",
     "requires_human_review", "analysis_notes", "processing_time_minutes"}

\* A JSON value of the field's own type
OfDeclaredType(name, v) ==
    CASE name \in {"index_name", "stopping_reason", "analysis_notes"} ->
            v.t = "str"
      [] name \in {"total_logs_analyzed", "analysis_batches_processed"} ->
            v.t = "int"
      [] name \in {"analysis_confidence", "processing_time_minutes"} ->
            v.t \in {"int", "float"}
      [] name = "requires_human_review" -> v.t = "bool"
      [] name = "log_types" -> v.t = "object"

\* A JSON value of the field's type, or one that is converted to it: a
\* number, a bool or a numeric string for a number, a bool, a number or a
\* string for a bool
OfConvertibleType(name, v) ==
    CASE name \in {"index_name", "stopping_reason", "analysis_notes"} ->
            v.t = "str"
      [] name \in {"total_logs_analyzed", "analysis_batches_processed",
                   "analysis_confidence", "processing_time_minutes"} ->
            v.t \in {"int", "float", "bool", "str"}
      [] name = "requires_human_review" -> v.t \in {"bool", "int", "float", "str"}
      [] name = "log_types" -> v.t = "object"

\* What the claim says of the rejected inputs and of the minimal document
RejectionRule ==
    /\ ~io.text.decodable => io.out.error = "Model output is not valid JSON"
    /\ (io.text.decodable /\ io.text.payload.t # "object") =>
          io.out.error = "Model output failed SchemaDocument validation"
    /\ \A name \in ClaimedRequired :
          io.text = Encoded(JObject(Drop(BaseFields, name))) =>
             io.out.error = "Model output failed SchemaDocument validation"
    /\ io.text = Encoded(JObject(MinimalFields)) => io.out.error = "none"
    /\ io.out.error # "none" => "result" \notin DOMAIN io.out

\* C17 as stated: a SchemaDocument is returned only when the text decodes to
\* a JSON object holding every required top-level field with a value of the
\* right type; removing one required field from a valid document fails with
\* a validation error; undecodable text fails with 'not valid JSON'; a
\* non-object fails; the minimal document with log_types {} is accepted.
C17_AcceptedOnlyWithDeclaredTypes ==
    SchemaDone =>
        /\ RejectionRule
        /\ SchemaAccepted =>
              /\ io.text.decodable /\ io.text.payload.t = "object"
              /\ \A name \in ClaimedRequired :
                    /\ name \in DOMAIN io.text.payload.fields
                    /\ OfDeclaredType(name, io.text.payload.fields[name])

\* C17: the same, a value of the right type being one of the declared JSON
\* type or one the validator converts to it (the string '100' for an int,
\* the string 'true' or the number 1 for a bool).
C17_AcceptedOnlyWithConvertibleTypes ==
    SchemaDone =>
        /\ RejectionRule
        /\ SchemaAccepted =>
              /\ io.text.decodable /\ io.text.payload.t = "object"
              /\ \A name \in ClaimedRequired :
                    /\ name \in DOMAIN io.text.payload.fields
                    /\ OfConvertibleType(name, io.text.payload.fields[name])

\* A document whose total_logs_analyzed is the string '100' was accepted.
C17_Witness ==
    /\ SchemaAccepted
    /\ io.text.payload.fields["total_logs_analyzed"].t = "str"
    /\ io.text.payload.fields["total_logs_analyzed"].s = "100"
    /\ ClaimedRequired \subseteq DOMAIN io.text.payload.fields

\* Following parent_parsed_field from entry k reaches an entry without
\* parent in at most 'fuel' steps (so without visiting an entry twice).
RECURSIVE ReachesRoot(_, _, _)
ReachesRoot(meta, k, fuel) ==
    \/ meta[k].parent_parsed_field.t = "null"
    \/ /\ fuel > 0
       /\ \E j \in 1..Len(meta) :
             /\ meta[j].field_path.s = meta[k].parent_parsed_field.s
             /\ ReachesRoot(meta, j, fuel - 1)

\* parse_level is 0 without parent and the parent's level plus 1 otherwise
LevelsConsistent(meta) ==
    \A k \in 1..Len(meta) :
        IF meta[k].parent_parsed_field.t = "null"
        THEN meta[k].parse_level.n = 0
        ELSE \A j \in 1..Len(meta) :
                meta[j].field_path.s = meta[k].parent_parsed_field.s =>
                   meta[k].parse_level.n = meta[j].parse_level.n + 1

IsForest(meta) ==
    /\ \A k \in 1..Len(meta) : ReachesRoot(meta, k, Len(meta) - 1)
    /\ LevelsConsistent(meta)

\* C18: in every accepted document the parsing_metadata of each log type is
\* a forest under parent_parsed_field (no cycle, level 0 at the roots, the
\* parent's level plus 1 elsewhere); a document with a cycle or with an
\* inconsistent parse_level is rejected.
C18_ParsingMetadataIsForest ==
    SchemaAccepted =>
        \A k \in 1..Len(io.text.payload.fields["log_types"].log_types) :
            IsForest(io.text.payload.fields["log_types"].log_types[k].parsing_metadata)

-----------------------------------------------------------------------------
(* C25: escapes in syslog_kv_parser *)

\* The first position from i on that holds c and is not the second
\* character of a backslash escape; Len(s) when there is none.
FirstUnescaped(s, c, i) ==
    LET hits == { j \in i..(Len(s) - 1) :
                     s[j + 1] = c /\ j \notin EscapedFrom(s, 0) }
    IN  IF hits = {} THEN Len(s)
        ELSE CHOOSE j \in hits : \A m \in hits : j <= m

\* The one pair the claim reads in a key-value portion that holds one: the
\* key up to the first unescaped '=', then a quoted span up to the first
\* unescaped '"' or an unquoted span up to the first unescaped space or the
\* end.  whole says that the value ends the portion.
ClaimedPair(kv) ==
    LET key_end == FirstUnescaped(kv, "=", 0)
        start == key_end + 1
        quoted == start < Len(kv) /\ kv[start + 1] = "\""
        value_end == IF quoted THEN FirstUnescaped(kv, "\"", start + 1)
                     ELSE FirstUnescaped(kv, " ", start)
    IN  [key |-> Strip(Slice(kv, 0, key_end)),
         value |-> IF quoted THEN Slice(kv, start + 1, value_end)
                   ELSE Slice(kv, start, value_end),
         quoted |-> quoted,
         whole |-> /\ start < Len(kv)
                   /\ IF quoted THEN value_end = Len(kv) - 1
                      ELSE value_end = Len(kv)]

KvPortion(message) ==
    Strip(Slice(message, Find(message, <<">">>, 0) + 1, Len(message)))

\* C25: backslash escapes suppress the delimiters of syslog_kv_parser: a key
\* extends to the first unescaped '=', an unquoted value to the next
\* unescaped space or the end of the string, and an escaped double quote
\* does not close a quoted value.
C25_EscapesSuppressDelimiters ==
    LET message == Strip(io.message_raw)
        pair == ClaimedPair(KvPortion(message))
    IN  (/\ SyslogDone
         /\ StartsWith(message, StdPri)
         /\ pair.whole /\ pair.key \notin {<<>>, PrefixKey}
         /\ pair.quoted \/ pair.value # <<>>)
            => /\ io.out.error = "none"
               /\ io.out.result = << <<PrefixKey, StdPri>>, <<pair.key, pair.value>> >>

\* The part of it about quoted values
QuotedValueClosedByUnescapedQuote ==
    LET message == Strip(io.message_raw)
        kv == KvPortion(message)
        pair == ClaimedPair(kv)
    IN  (/\ SyslogDone
         /\ StartsWith(message, StdPri)
         /\ pair.whole /\ pair.key \notin {<<>>, PrefixKey} /\ pair.quoted
         /\ EscapedFrom(kv, 0) \cap 0..FirstUnescaped(kv, "=", 0) = {})
            => /\ io.out.error = "none"
               /\ io.out.result = << <<PrefixKey, StdPri>>, <<pair.key, pair.value>> >>

-----------------------------------------------------------------------------
(* C26: write_file_content and existing files *)

InsideWriteRoots(path) ==
    ~HasNul(path) /\ ContainedInSomeRoot(path, ALLOWED_WRITE_DIRS)

\* Every ancestor of the path is a directory or missing, and the path is no
\* directory: a file can be there.
CanHoldFile(path) ==
    /\ Prefixes(ParentOf(path)) \cap DOMAIN files = {}
    /\ Resolve(path) \notin dirs

\* What one call write_file_content(path, content, overwrite) does
WriteRule(path, content, overwrite) ==
    LET target == Resolve(path)
    IN  /\ ~overwrite => \A f \in DOMAIN files : f \in DOMAIN files' /\ files'[f] = files[f]
        /\ (InsideWriteRoots(path) /\ Exists(path) /\ ~overwrite) =>
              /\ io'.error = "File already exists"
              /\ files' = files /\ dirs' = dirs
        /\ (InsideWriteRoots(path) /\ IsFile(path) /\ overwrite) =>
              /\ io'.error = "none"
              /\ files' = Put(files, target, content)
        /\ (InsideWriteRoots(path) /\ ~Exists(path) /\ CanHoldFile(path)) =>
              /\ io'.error = "none"
              /\ files' = Put(files, target, content)
              /\ Prefixes(ParentOf(path)) \subseteq dirs'
              /\ dirs \subseteq dirs'

-----------------------------------------------------------------------------
(* C27: read_file_content and max_lines *)

ReadableFile(path) == InsideReadRoots(path) /\ IsFile(path)

\* C27: max_lines is a limit: for a readable file of L lines and max_lines
\* m >= 1 the call returns the first min(m, L) lines, a file of fewer than m
\* lines being returned whole; without max_lines it returns the whole
\* content.
C27_MaxLinesIsLimit ==
    (io.op = "read_file_content" /\ ReadableFile(io.path)) =>
        /\ io.error = "none"
        /\ LET lines == files[Resolve(io.path)]
           IN  io.content =
                  IF io.max_lines.none THEN lines
                  ELSE IF io.max_lines.n >= 1
                       THEN SubSeq(lines, 1, Min(io.max_lines.n, Len(lines)))
                       ELSE io.content

-----------------------------------------------------------------------------
(* C28: streams and registry entries *)

OwnersOf(stream) ==
    { id \in DOMAIN id_to_handle : id_to_handle[id].handle = stream }

\* C28: after any sequence of open_and_register_jsonl, read_jsonl,
\* close_jsonl, add_handle_entry and clear_registry, every stream opened and
\* not yet closed is owned by exactly one registry entry, and every entry
\* holds an open stream.
C28_OpenStreamsOwnedByOneEntry ==
    /\ \A stream \in DOMAIN streams : Cardinality(OwnersOf(stream)) = 1
    /\ \A id \in DOMAIN id_to_handle :
          id_to_handle[id].handle \in DOMAIN streams

\* The same holds of the three tools alone.
ToolsKeepStreamsOwned == C28_OpenStreamsOwnedByOneEntry

-----------------------------------------------------------------------------
(* C29: the reserved 'prefix' entry *)

\* The start of the message up to and including its first '>'
LeadingToken(message) == Slice(message, 0, Find(message, <<">">>, 0) + 1)

\* C29: in every mapping syslog_kv_parser returns, the entry 'prefix' is the
\* leading token of the input up to and including the first '>', also when
\* one of the pairs has the key 'prefix': no pair overwrites it.
C29_PrefixEntryNeverOverwritten ==
    (SyslogDone /\ io.out.error = "none") =>
        /\ DictHas(io.out.result, PrefixKey)
        /\ DictGet(io.out.result, PrefixKey) = LeadingToken(Strip(io.message_raw))

-----------------------------------------------------------------------------
(* The scanners of parsers.py, one loop iteration at a time *)

ScanStarts ==
    { [op |-> "cef_scan", s |-> e, st |-> ExtensionStart, iterations |-> 0] :
         e \in { x \in UNION { [1..n -> ExtAlphabet] : n \in 1..MaxScanLen } :
                    Strip(x) # <<>> } }
    \cup
    { [op |-> "kv_scan", s |-> e, index |-> 0,
       result |-> << <<PrefixKey, StdPri>> >>, iterations |-> 0] :
         e \in { x \in UNION { [1..n -> KvAlphabet] : n \in 1..MaxScanLen } :
                    Strip(x) = x } }

InitScan ==
    /\ symlinks = NoLinks
    /\ cwd = PROJECT_ROOT
    /\ pa = NoCall
    /\ cmd = NoCommand
    /\ files = InitialFiles
    /\ dirs = InitialDirs
    /\ id_to_handle = NoEntries
    /\ streams = NoEntries
    /\ returned = NoEntries
    /\ issued = 0
    /\ io \in ScanStarts

\* One iteration of the while loop of _parse_cef_extension
CefIteration ==
    /\ io.op = "cef_scan"
    /\ io.st.i < Len(io.s)
    /\ io' = [io EXCEPT !.st = ExtensionStep(io.s, io.st),
                        !.iterations = @ + 1]
    /\ UNCHANGED <<fsVars, regVars, pa, cmd>>

\* The loop condition fails and _parse_cef_extension returns
CefReturn ==
    /\ io.op = "cef_scan"
    /\ io.st.i >= Len(io.s)
    /\ io' = [op |-> "returned", scanner |-> "cef", s |-> io.s,
              iterations |-> io.iterations]
    /\ UNCHANGED <<fsVars, regVars, pa, cmd>>

\* One iteration of the while loop of syslog_kv_parser
KvIteration ==
    /\ io.op = "kv_scan"
    /\ io.index < Len(io.s)
    /\ LET step == KvStep(io.s, io.index, io.result)
       IN  io' = IF step.error # "none"
                 THEN [op |-> "raised", scanner |-> "kv", s |-> io.s,
                       iterations |-> io.iterations + 1]
                 ELSE IF step.broke
                 THEN [op |-> "returned", scanner |-> "kv", s |-> io.s,
                       iterations |-> io.iterations + 1]
                 ELSE [io EXCEPT !.index = step.index,
                                 !.result = step.result,
                                 !.iterations = @ + 1]
    /\ UNCHANGED <<fsVars, regVars, pa, cmd>>

\* The loop condition fails and syslog_kv_parser returns
KvReturn ==
    /\ io.op = "kv_scan"
    /\ io.index >= Len(io.s)
    /\ io' = [op |-> "returned", scanner |-> "kv", s |-> io.s,
              iterations |-> io.iterations]
    /\ UNCHANGED <<fsVars, regVars, pa, cmd>>

NextScan == CefIteration \/ CefReturn \/ KvIteration \/ KvReturn

\* The interpreter goes on with the loop as long as it has an iteration to
\* make.
SpecScan == InitScan /\ [][NextScan]_vars /\ WF_vars(NextScan)

-----------------------------------------------------------------------------
(* C30: termination of the scanners *)

\* An iteration that is followed by another moved the position forward, in
\* the extension tokenizer by 1 or 2.
IterationAdvances ==
    /\ (io.op = "cef_scan" /\ io'.op = "cef_scan")
          => io'.st.i - io.st.i \in {1, 2}
    /\ (io.op = "kv_scan" /\ io'.op = "kv_scan") => io'.index > io.index

ScanEnded == io.op \in {"returned", "raised"}

====
